---------------------------- MODULE Spec2Model ----------------------------
(***************************************************************************)
(* A model of imcdf-lib-c: the ImagCDF mapping layer (imcdf.c), its        *)
(* utilities (imcdf_utils.c) and the low level binding to the NASA CDF     *)
(* library (imcdf_low_level.c).                                            *)
(*                                                                         *)
(* C strings are sequences of one-character strings, so that the code's    *)
(* character level operations (toupper of a first character, strcasecmp,   *)
(* strtod, sprintf) are computed and not assumed.  A null char pointer is  *)
(* the value NULL.  A double and a TT2000 value are integers: the code     *)
(* only stores and returns them.                                           *)
(***************************************************************************)
EXTENDS Integers, Sequences, FiniteSets, TLC

(***************************************************************************)
(* Bounds of the model.                                                    *)
(***************************************************************************)
\* longest FormatVersion text that is enumerated character by character
MaxVerLen == 4
\* number of ParentIdentifiers / ReferenceLinks entries a caller supplies
MaxEntries == 2
\* number of fields of the base record a caller changes
MaxChanged == 1
\* longest element code enumerated for the classification functions
MaxCodeLen == 2
\* longest sample / time stamp array
MaxDataLen == 2
MaxChannels == 4
MaxWrites == 3
MaxIncs == 2
MaxSamples == 3
MaxOpened == 11
MaxClosed == 1
MaxTitleLen == 200

(***************************************************************************)
(* Characters and C strings.                                               *)
(***************************************************************************)
UpperCase == <<"A","B","C","D","E","F","G","H","I","J","K","L","M","N","O","P","Q","R","S","T","U","V","W","X","Y","Z">>
LowerCase == <<"a","b","c","d","e","f","g","h","i","j","k","l","m","n","o","p","q","r","s","t","u","v","w","x","y","z">>
Digits == <<"0","1","2","3","4","5","6","7","8","9">>

\* a null char pointer (comparable with every string, equal to none)
NULL == <<"(null)">>

\* all strings over the alphabet cs of length 0..n
RECURSIVE StringsUpTo(_, _)
StringsUpTo(cs, n) ==
    IF n = 0 THEN {<<>>}
    ELSE LET shorter == StringsUpTo(cs, n - 1)
         IN  shorter \cup {Append(s, c) : s \in {t \in shorter : Len(t) = n - 1}, c \in cs}

toupper(c) ==
    IF \E i \in DOMAIN LowerCase : LowerCase[i] = c
    THEN UpperCase[CHOOSE i \in DOMAIN LowerCase : LowerCase[i] = c]
    ELSE c

tolower(c) ==
    IF \E i \in DOMAIN UpperCase : UpperCase[i] = c
    THEN LowerCase[CHOOSE i \in DOMAIN UpperCase : UpperCase[i] = c]
    ELSE c

\* strcasecmp (a, b) == 0
strcasecmp_eq(a, b) ==
    /\ Len(a) = Len(b)
    /\ \A i \in DOMAIN a : tolower(a[i]) = tolower(b[i])

\* *s, the first character of a string ("\\0" for the empty string)
FirstChar(s) == IF Len(s) = 0 THEN "\\0" ELSE s[1]

DigitValue(c) == (CHOOSE i \in DOMAIN Digits : Digits[i] = c) - 1
IsDigit(c) == \E i \in DOMAIN Digits : Digits[i] = c

RECURSIVE Pow10(_)
Pow10(k) == IF k = 0 THEN 1 ELSE 10 * Pow10(k - 1)

\* the number of leading decimal digits of s from position i on
RECURSIVE DigitRun(_, _)
DigitRun(s, i) ==
    IF i <= Len(s) /\ IsDigit(s[i]) THEN 1 + DigitRun(s, i + 1) ELSE 0

\* the value of the digits s[i .. i+n-1]
RECURSIVE DigitsValue(_, _, _)
DigitsValue(s, i, n) ==
    IF n = 0 THEN 0
    ELSE 10 * DigitsValue(s, i, n - 1) + DigitValue(s[i + n - 1])

(***************************************************************************)
(* strtod on the texts of the model (digits, '.', other characters; no     *)
(* sign, white space, exponent or hexadecimal prefix occurs in them): the  *)
(* longest prefix digits [ '.' digits ] with at least one digit is         *)
(* converted, anything after it is ignored, and a text with no such prefix *)
(* converts to 0.  The value is the exact fraction num / den.              *)
(***************************************************************************)
strtod(s) ==
    LET ip == DigitRun(s, 1)
        dot == ip + 1 <= Len(s) /\ s[ip + 1] = "."
        fp == IF dot THEN DigitRun(s, ip + 2) ELSE 0
    IN  IF ip + fp = 0 THEN [num |-> 0, den |-> 1]
        ELSE [num |-> DigitsValue(s, 1, ip) * Pow10(fp)
                        + (IF fp = 0 THEN 0 ELSE DigitsValue(s, ip + 2, fp)),
              den |-> Pow10(fp)]

(***************************************************************************)
(* The CDF library as imcdf_low_level.c uses it.  A status is named by its *)
(* cdf.h symbol; the symbols below CDF_WARN are the errors.  A dataset is  *)
(*   gattrs : global attribute name -> (entry number -> entry)             *)
(*   vattrs : variable attribute name -> (variable name -> entry)          *)
(*   zvars  : variable name -> [type, recs]                                *)
(* and an entry is [type, val].  Attribute names are unique in a dataset   *)
(* whatever their scope.                                                   *)
(***************************************************************************)
CDF_OK == "CDF_OK"
ErrorStatus ==
    {"ATTR_EXISTS", "VAR_EXISTS", "NO_SUCH_ATTR", "NO_SUCH_ENTRY", "NO_SUCH_VAR",
     "BAD_MALLOC", "BAD_ARGUMENT", "BAD_VAR_NAME", "ILLEGAL_FOR_SCOPE",
     "BAD_CDF_ID"}
\* status < CDF_WARN
IsError(status) == status \in ErrorStatus
\* status < 0 : a warning or an error
IsNegative(status) == status \in ErrorStatus

NoEntries == [x \in {} |-> x]
EmptyCDF == [gattrs |-> NoEntries, vattrs |-> NoEntries, zvars |-> NoEntries]

CDFattrExists(cdf, name) == name \in (DOMAIN cdf.gattrs) \cup (DOMAIN cdf.vattrs)

\* CDFcreateAttr: a new attribute with no entry; ATTR_EXISTS when the name is in use
CDFcreateAttr(cdf, name, scope) ==
    IF CDFattrExists(cdf, name)
    THEN [status |-> "ATTR_EXISTS", cdf |-> cdf]
    ELSE IF scope = "GLOBAL_SCOPE"
    THEN [status |-> CDF_OK, cdf |-> [cdf EXCEPT !.gattrs = (name :> NoEntries) @@ @]]
    ELSE [status |-> CDF_OK, cdf |-> [cdf EXCEPT !.vattrs = (name :> NoEntries) @@ @]]

\* CDFputAttrgEntry: write (or overwrite) one entry of a global attribute
CDFputAttrgEntry(cdf, name, entry_no, type, value) ==
    [status |-> CDF_OK,
     cdf |-> [cdf EXCEPT !.gattrs[name] = (entry_no :> [type |-> type, val |-> value]) @@ @]]

\* CDFattrNum followed by CDFinquireAttrgEntry: the status and the entry found
CDFinquireAttrgEntry(cdf, name, entry_no) ==
    IF name \notin DOMAIN cdf.gattrs
    THEN [status |-> IF name \in DOMAIN cdf.vattrs THEN "NO_SUCH_ENTRY" ELSE "NO_SUCH_ATTR"]
    ELSE IF entry_no \notin DOMAIN cdf.gattrs[name]
    THEN [status |-> "NO_SUCH_ENTRY"]
    ELSE [status |-> CDF_OK, entry |-> cdf.gattrs[name][entry_no]]

(***************************************************************************)
(* imcdf_low_level.c: global attributes.  Every operation returns its      *)
(* return code, the dataset and the global cdf_status it leaves.           *)
(***************************************************************************)
imcdf_add_global_attr_string(cdf, status, name, entry_no, value) ==
    IF value = NULL
    THEN [rc |-> 0, status |-> status, cdf |-> cdf]
    ELSE LET c == CDFcreateAttr(cdf, name, "GLOBAL_SCOPE")
         IN  IF IsError(c.status)
             THEN [rc |-> -1, status |-> c.status, cdf |-> cdf]
             ELSE LET p == CDFputAttrgEntry(c.cdf, name, entry_no, "CDF_CHAR", value)
                  IN  [rc |-> 0, status |-> p.status, cdf |-> p.cdf]

imcdf_add_global_attr_double(cdf, status, name, entry_no, value) ==
    LET c == CDFcreateAttr(cdf, name, "GLOBAL_SCOPE")
    IN  IF IsError(c.status)
        THEN [rc |-> -1, status |-> c.status, cdf |-> cdf]
        ELSE LET p == CDFputAttrgEntry(c.cdf, name, entry_no, "CDF_DOUBLE", value)
             IN  [rc |-> 0, status |-> p.status, cdf |-> p.cdf]

imcdf_add_global_attr_tt2000(cdf, status, name, entry_no, value) ==
    LET c == CDFcreateAttr(cdf, name, "GLOBAL_SCOPE")
    IN  IF IsError(c.status)
        THEN [rc |-> -1, status |-> c.status, cdf |-> cdf]
        ELSE LET p == CDFputAttrgEntry(c.cdf, name, entry_no, "CDF_TIME_TT2000", value)
             IN  [rc |-> 0, status |-> p.status, cdf |-> p.cdf]

\* imcdf_get_global_attribute_string / _double / _tt2000 differ in `type' only
imcdf_get_global_attribute(cdf, name, entry_no, type) ==
    LET q == CDFinquireAttrgEntry(cdf, name, entry_no)
    IN  IF IsNegative(q.status) THEN [rc |-> -1, status |-> q.status]
        ELSE IF q.entry.type # type THEN [rc |-> -1, status |-> q.status]
        ELSE [rc |-> 0, status |-> CDF_OK, value |-> q.entry.val]

\* imcdf_status_code_tostring: the library's text of a status stands as one item
CDFgetStatusText(status) == <<status>>
imcdf_status_code_tostring(status) ==
    IF IsError(status) THEN <<"E","r","r","o","r",":"," ">> \o CDFgetStatusText(status) \o <<"\n">>
    ELSE <<"S","u","c","c","e","s","s">>

(***************************************************************************)
(* imcdf_utils.c: the codecs of the enumerations.                          *)
(***************************************************************************)
PubLevels == 1 .. 4
StandardLevels == {"IMCDF_STANDLEVEL_FULL", "IMCDF_STANDLEVEL_PARTIAL", "IMCDF_STANDLEVEL_NONE"}

imcdf_parse_pub_level_string(string) ==
    IF strcasecmp_eq(string, <<"1">>) THEN 1
    ELSE IF strcasecmp_eq(string, <<"2">>) THEN 2
    ELSE IF strcasecmp_eq(string, <<"3">>) THEN 3
    ELSE IF strcasecmp_eq(string, <<"4">>) THEN 4
    ELSE 1

imcdf_pub_level_code_tostring(code) ==
    CASE code = 1 -> <<"1">>
      [] code = 2 -> <<"2">>
      [] code = 3 -> <<"3">>
      [] code = 4 -> <<"4">>
      [] OTHER -> <<"1">>

\* imcdf_parse_standard_level_string comparing with strcmp
imcdf_parse_standard_level_string_exact(string) ==
    IF string = <<"f","u","l","l">> THEN "IMCDF_STANDLEVEL_FULL"
    ELSE IF string = <<"p","a","r","t","i","a","l">> THEN "IMCDF_STANDLEVEL_PARTIAL"
    ELSE IF string = <<"n","o","n","e">> THEN "IMCDF_STANDLEVEL_NONE"
    ELSE "IMCDF_STANDLEVEL_NONE"

imcdf_parse_standard_level_string(string) ==
    IF strcasecmp_eq(string, <<"f","u","l","l">>) THEN "IMCDF_STANDLEVEL_FULL"
    ELSE IF strcasecmp_eq(string, <<"p","a","r","t","i","a","l">>) THEN "IMCDF_STANDLEVEL_PARTIAL"
    ELSE IF strcasecmp_eq(string, <<"n","o","n","e">>) THEN "IMCDF_STANDLEVEL_NONE"
    ELSE "IMCDF_STANDLEVEL_NONE"

imcdf_standard_level_code_tostring(code) ==
    CASE code = "IMCDF_STANDLEVEL_FULL" -> <<"F","u","l","l">>
      [] code = "IMCDF_STANDLEVEL_PARTIAL" -> <<"P","a","r","t","i","a","l">>
      [] code = "IMCDF_STANDLEVEL_NONE" -> <<"N","o","n","e">>
      [] OTHER -> <<"N","o","n","e">>

imcdf_parse_var_type_string(string) ==
    IF strcasecmp_eq(string, <<"G","e","o","m","a","g","n","e","t","i","c","F","i","e","l","d","E","l","e","m","e","n","t">>)
    THEN "IMCDF_VARTYPE_GEOMAGNETIC_FIELD_ELEMENT"
    ELSE IF strcasecmp_eq(string, <<"T","e","m","p","e","r","a","t","u","r","e">>) THEN "IMCDF_VARTYPE_TEMPERATURE"
    ELSE "IMCDF_VARTYPE_ERROR"

imcdf_var_type_code_tostring(code) ==
    CASE code = "IMCDF_VARTYPE_GEOMAGNETIC_FIELD_ELEMENT" -> <<"G","e","o","m","a","g","n","e","t","i","c","F","i","e","l","d","E","l","e","m","e","n","t">>
      [] code = "IMCDF_VARTYPE_TEMPERATURE" -> <<"T","e","m","p","e","r","a","t","u","r","e">>
      [] OTHER -> <<"E","r","r","o","r">>

(***************************************************************************)
(* imcdf.c: private helpers.                                               *)
(***************************************************************************)
\* is_blank without its test of the empty string
is_blank_null_only(s) == s = NULL

is_blank(s) == s = NULL \/ Len(s) = 0

\* the null return of the char * functions: success
NoError == <<"(no error)">>

\* format_error_message deciding on the global status, not on its argument
format_error_message_last_status(msg, param, cdf_status, last_status) ==
    msg
    \o (IF param # NULL THEN <<":"," ">> \o param ELSE <<>>)
    \o (IF last_status # CDF_OK
        THEN <<" ","[","C","D","F"," ","e","r","r","o","r",":"," ","]">> \o imcdf_status_code_tostring(last_status)
        ELSE <<>>)

\* format_error_message (msg, param, cdf_status), called while the global
\* status is last_status: the text left in the static buffer
format_error_message(msg, param, cdf_status, last_status) ==
    msg
    \o (IF param # NULL THEN <<":"," ">> \o param ELSE <<>>)
    \o (IF cdf_status # CDF_OK
        THEN <<" ","[","C","D","F"," ","e","r","r","o","r",":"," ","]">> \o imcdf_status_code_tostring(last_status)
        ELSE <<>>)

\* static char buffer [200]
sizeof_buffer == 200

\* strcpy and strcat have written the message and its terminator beyond the
\* end of the buffer
format_error_message_overruns(message) ==
    message # NoError /\ Len(message) + 1 > sizeof_buffer

TITLE == <<"G","e","o","m","a","g","n","e","t","i","c"," ","t","i","m","e"," ","s","e","r","i","e","s"," ","d","a","t","a">>
FORMAT_DESCRIPTION == <<"I","N","T","E","R","M","A","G","N","E","T"," ","C","D","F"," ","F","o","r","m","a","t">>
FORMAT_VERSION == <<"1",".","3">>

\* the text returned by getINTERMAGNETTermsOfUse, one item per source line
getINTERMAGNETTermsOfUse ==
    << "CONDITIONS OF USE FOR DATA PROVIDED THROUGH INTERMAGNET:\n",
       "The data made available through INTERMAGNET are provided for\n",
       "your use and are not for commercial use or sale or distribution\n",
       "to third parties without the written permission of the institute\n",
       "(http://www.intermagnet.org/Institutes_e.html) operating\n",
       "the observatory. Publications making use of the data\n",
       "should include an acknowledgment statement of the form given below.\n",
       "A citation reference should be sent to the INTERMAGNET Secretary\n",
       "(secretary@intermagnet.org) for inclusion in a publications list\n",
       "on the INTERMAGNET website.\n",
       "\n",
       "     ACKNOWLEDGEMENT OF DATA FROM OBSERVATORIES\n",
       "     PARTICIPATING IN INTERMAGNET\n",
       "We offer two acknowledgement templates. The first is for cases\n",
       "where data from many observatories have been used and it is not\n",
       "practical to list them all, or each of their operating institutes.\n",
       "The second is for cases where research results have been produced\n",
       "using a smaller set of observatories.\n",
       "\n",
       "     Suggested Acknowledgement Text (template 1)\n",
       "The results presented in this paper rely on data collected\n",
       "at magnetic observatories. We thank the national institutes that\n",
       "support them and INTERMAGNET for promoting high standards of\n",
       "magnetic observatory practice (www.intermagnet.org).\n",
       "\n",
       "     Suggested Acknowledgement Text (template 2)\n",
       "The results presented in this paper rely on the data\n",
       "collected at <observatory name>. We thank <institute name>,\n",
       "for supporting its operation and INTERMAGNET for promoting high\n",
       "standards of magnetic observatory practice (www.intermagnet.org).\n" >>

(***************************************************************************)
(* imcdf_write_global_attrs.  The record of the caller first gets its      *)
(* defaults; the attributes are then written one after the other and the   *)
(* first failure ends the operation.                                       *)
(***************************************************************************)
WithDefaults(g) ==
    [g EXCEPT
       !.title = IF is_blank(@) THEN TITLE ELSE @,
       !.format_description = IF is_blank(@) THEN FORMAT_DESCRIPTION ELSE @,
       !.format_version = IF is_blank(@) THEN FORMAT_VERSION ELSE @,
       !.terms_of_use = IF is_blank(@) THEN getINTERMAGNETTermsOfUse ELSE @]

GWrite(name, type, value) == [name |-> name, entry |-> 0, type |-> type, value |-> value]

\* the attribute writes of imcdf_write_global_attrs, in the order of the code
GlobalAttrWrites(g) ==
    << GWrite(<<"F","o","r","m","a","t","D","e","s","c","r","i","p","t","i","o","n">>, "CDF_CHAR", g.format_description),
       GWrite(<<"F","o","r","m","a","t","V","e","r","s","i","o","n">>, "CDF_CHAR", g.format_version),
       GWrite(<<"T","i","t","l","e">>, "CDF_CHAR", g.title),
       GWrite(<<"I","a","g","a","C","o","d","e">>, "CDF_CHAR", g.iaga_code),
       GWrite(<<"E","l","e","m","e","n","t","s","R","e","c","o","r","d","e","d">>, "CDF_CHAR", g.elements_recorded),
       GWrite(<<"P","u","b","l","i","c","a","t","i","o","n","L","e","v","e","l">>, "CDF_CHAR", imcdf_pub_level_code_tostring(g.pub_level)),
       GWrite(<<"P","u","b","l","i","c","a","t","i","o","n","D","a","t","e">>, "CDF_TIME_TT2000", g.pub_date),
       GWrite(<<"O","b","s","e","r","v","a","t","o","r","y","N","a","m","e">>, "CDF_CHAR", g.observatory_name),
       GWrite(<<"L","a","t","i","t","u","d","e">>, "CDF_DOUBLE", g.latitude),
       GWrite(<<"L","o","n","g","i","t","u","d","e">>, "CDF_DOUBLE", g.longitude),
       GWrite(<<"E","l","e","v","a","t","i","o","n">>, "CDF_DOUBLE", g.elevation),
       GWrite(<<"I","n","s","t","i","t","u","t","i","o","n">>, "CDF_CHAR", g.institution),
       GWrite(<<"V","e","c","t","o","r","S","e","n","s","O","r","i","e","n","t">>, "CDF_CHAR", g.vector_sens_orient),
       GWrite(<<"S","t","a","n","d","a","r","d","L","e","v","e","l">>, "CDF_CHAR",
              imcdf_standard_level_code_tostring(g.standard_level)),
       GWrite(<<"S","t","a","n","d","a","r","d","N","a","m","e">>, "CDF_CHAR", g.standard_name),
       GWrite(<<"S","t","a","n","d","a","r","d","V","e","r","s","i","o","n">>, "CDF_CHAR", g.standard_version),
       GWrite(<<"P","a","r","t","i","a","l","S","t","a","n","d","D","e","s","c">>, "CDF_CHAR", g.partial_stand_desc),
       GWrite(<<"S","o","u","r","c","e">>, "CDF_CHAR", g.source),
       GWrite(<<"T","e","r","m","s","O","f","U","s","e">>, "CDF_CHAR", g.terms_of_use),
       GWrite(<<"U","n","i","q","u","e","I","d","e","n","t","i","f","i","e","r">>, "CDF_CHAR", g.unique_identifier) >>
    \o [count \in 1 .. Len(g.parent_identifiers) |->
          [name |-> <<"P","a","r","e","n","t","I","d","e","n","t","i","f","i","e","r","s">>, entry |-> count - 1, type |-> "CDF_CHAR",
           value |-> g.parent_identifiers[count]]]
    \o [count \in 1 .. Len(g.reference_links) |->
          [name |-> <<"R","e","f","e","r","e","n","c","e","L","i","n","k","s">>, entry |-> count - 1, type |-> "CDF_CHAR",
           value |-> g.reference_links[count]]]

imcdf_add_global_attr(cdf, status, w) ==
    CASE w.type = "CDF_CHAR" -> imcdf_add_global_attr_string(cdf, status, w.name, w.entry, w.value)
      [] w.type = "CDF_DOUBLE" -> imcdf_add_global_attr_double(cdf, status, w.name, w.entry, w.value)
      [] w.type = "CDF_TIME_TT2000" -> imcdf_add_global_attr_tt2000(cdf, status, w.name, w.entry, w.value)

RECURSIVE WriteGlobalAttrsFrom(_, _, _, _)
WriteGlobalAttrsFrom(writes, i, cdf, status) ==
    IF i > Len(writes)
    THEN [ret |-> NoError, cdf |-> cdf, status |-> status]
    ELSE LET r == imcdf_add_global_attr(cdf, status, writes[i])
         IN  IF r.rc # 0
             THEN [ret |-> format_error_message(<<"E","r","r","o","r"," ","w","r","i","t","i","n","g"," ","g","l","o","b","a","l"," ","a","t","t","r","i","b","u","t","e">>,
                                                writes[i].name, r.status, r.status),
                   cdf |-> r.cdf, status |-> r.status]
             ELSE WriteGlobalAttrsFrom(writes, i + 1, r.cdf, r.status)

\* the result: the return value, the dataset, cdf_status and the caller's record
imcdf_write_global_attrs(cdf, status, global_attrs) ==
    LET g == WithDefaults(global_attrs)
        r == WriteGlobalAttrsFrom(GlobalAttrWrites(g), 1, cdf, status)
    IN  [ret |-> r.ret, cdf |-> r.cdf, status |-> r.status, global_attrs |-> g]

(***************************************************************************)
(* imcdf_read_global_attrs.  The caller's structure is not initialised;    *)
(* a field is assigned when its attribute is read (or, for an optional     *)
(* attribute that cannot be read, set to null).                            *)
(***************************************************************************)
UNINIT == <<"(uninitialised)">>

GlobalAttrFields ==
    {"format_description", "format_version", "title", "iaga_code", "elements_recorded",
     "pub_level", "pub_date", "observatory_name", "latitude", "longitude", "elevation",
     "institution", "vector_sens_orient", "standard_level", "standard_name",
     "standard_version", "partial_stand_desc", "source", "terms_of_use",
     "unique_identifier", "parent_identifiers", "reference_links"}

\* the structure as the caller declares it, with the two locals pl_str and sl_str
UninitGlobalAttrs == [f \in GlobalAttrFields \cup {"pl_str", "sl_str"} |-> UNINIT]

\* a read whose failure is never fatal
GRead_optional(name, type, field, required) ==
    [name |-> name, type |-> type, field |-> field, required |-> FALSE]

GRead(name, type, field, required) ==
    [name |-> name, type |-> type, field |-> field, required |-> required]

\* the attribute reads of imcdf_read_global_attrs, in the order of the code
GlobalAttrReads ==
    << GRead(<<"F","o","r","m","a","t","D","e","s","c","r","i","p","t","i","o","n">>, "CDF_CHAR", "format_description", TRUE),
       GRead(<<"F","o","r","m","a","t","V","e","r","s","i","o","n">>, "CDF_CHAR", "format_version", TRUE),
       GRead(<<"T","i","t","l","e">>, "CDF_CHAR", "title", TRUE),
       GRead(<<"I","a","g","a","C","o","d","e">>, "CDF_CHAR", "iaga_code", TRUE),
       GRead(<<"E","l","e","m","e","n","t","s","R","e","c","o","r","d","e","d">>, "CDF_CHAR", "elements_recorded", TRUE),
       GRead(<<"P","u","b","l","i","c","a","t","i","o","n","L","e","v","e","l">>, "CDF_CHAR", "pl_str", TRUE),
       GRead(<<"P","u","b","l","i","c","a","t","i","o","n","D","a","t","e">>, "CDF_TIME_TT2000", "pub_date", TRUE),
       GRead(<<"O","b","s","e","r","v","a","t","o","r","y","N","a","m","e">>, "CDF_CHAR", "observatory_name", TRUE),
       GRead(<<"L","a","t","i","t","u","d","e">>, "CDF_DOUBLE", "latitude", TRUE),
       GRead(<<"L","o","n","g","i","t","u","d","e">>, "CDF_DOUBLE", "longitude", TRUE),
       GRead(<<"E","l","e","v","a","t","i","o","n">>, "CDF_DOUBLE", "elevation", TRUE),
       GRead(<<"I","n","s","t","i","t","u","t","i","o","n">>, "CDF_CHAR", "institution", TRUE),
       GRead(<<"V","e","c","t","o","r","S","e","n","s","O","r","i","e","n","t">>, "CDF_CHAR", "vector_sens_orient", FALSE),
       GRead(<<"S","t","a","n","d","a","r","d","L","e","v","e","l">>, "CDF_CHAR", "sl_str", TRUE),
       GRead(<<"S","t","a","n","d","a","r","d","N","a","m","e">>, "CDF_CHAR", "standard_name", FALSE),
       GRead(<<"S","t","a","n","d","a","r","d","V","e","r","s","i","o","n">>, "CDF_CHAR", "standard_version", FALSE),
       GRead(<<"P","a","r","t","i","a","l","S","t","a","n","d","D","e","s","c">>, "CDF_CHAR", "partial_stand_desc", FALSE),
       GRead(<<"S","o","u","r","c","e">>, "CDF_CHAR", "source", TRUE),
       GRead(<<"T","e","r","m","s","O","f","U","s","e">>, "CDF_CHAR", "terms_of_use", FALSE),
       GRead(<<"U","n","i","q","u","e","I","d","e","n","t","i","f","i","e","r">>, "CDF_CHAR", "unique_identifier", FALSE) >>

\* the chain of reads: ret is NoError when every required attribute was read
RECURSIVE ReadGlobalAttrsFrom(_, _, _, _, _)
ReadGlobalAttrsFrom(reads, i, cdf, status, g) ==
    IF i > Len(reads)
    THEN [ret |-> NoError, status |-> status, g |-> g]
    ELSE LET r == imcdf_get_global_attribute(cdf, reads[i].name, 0, reads[i].type)
         IN  IF r.rc = 0
             THEN ReadGlobalAttrsFrom(reads, i + 1, cdf, r.status,
                                      [g EXCEPT ![reads[i].field] = r.value])
             ELSE IF reads[i].required
             THEN [ret |-> format_error_message(<<"E","r","r","o","r"," ","r","e","a","d","i","n","g"," ","g","l","o","b","a","l"," ","a","t","t","r","i","b","u","t","e">>,
                                                reads[i].name, r.status, r.status),
                   status |-> r.status, g |-> g]
             ELSE ReadGlobalAttrsFrom(reads, i + 1, cdf, r.status,
                                      [g EXCEPT ![reads[i].field] = NULL])

\* the probe loop over the entries n, n+1, ... of a repeatable attribute
RECURSIVE ProbeEntries(_, _, _, _)
ProbeEntries(cdf, name, n, found) ==
    LET r == imcdf_get_global_attribute(cdf, name, n, "CDF_CHAR")
    IN  IF r.rc = 0
        THEN ProbeEntries(cdf, name, n + 1, Append(found, r.value))
        ELSE [entries |-> found, status |-> r.status]

\* imcdf_version = (int) ((strtod (format_version, &ptr) * 10.0) + 0.5)
\* the version without the half added before the conversion to int
imcdf_version_truncated(format_version) ==
    LET v == strtod(format_version) IN (10 * v.num) \div v.den

imcdf_version(format_version) ==
    LET v == strtod(format_version)
    IN  (20 * v.num + v.den) \div (2 * v.den)

\* the checks that end imcdf_read_global_attrs, made while cdf_status is `status'
CheckMetadata(g, status) ==
    IF ~ strcasecmp_eq(g.title, TITLE)
    THEN format_error_message(<<"T","i","t","l","e"," ","o","f"," ","d","a","t","a"," ","i","n","c","o","r","r","e","c","t">>, g.title, CDF_OK, status)
    ELSE IF ~ strcasecmp_eq(g.format_description, FORMAT_DESCRIPTION)
    THEN format_error_message(<<"D","e","s","c","r","i","p","t","i","o","n"," ","o","f"," ","d","a","t","a"," ","i","n","c","o","r","r","e","c","t">>, g.format_description,
                              CDF_OK, status)
    ELSE IF imcdf_version(g.format_version) < 11 \/ imcdf_version(g.format_version) > 13
    THEN format_error_message(<<"F","o","r","m","a","t"," ","i","n","c","o","r","r","e","c","t">>, g.format_version, CDF_OK, status)
    ELSE NoError

\* the result: the return value, cdf_status and the caller's structure
imcdf_read_global_attrs(cdf, status) ==
    LET a == ReadGlobalAttrsFrom(GlobalAttrReads, 1, cdf, status, UninitGlobalAttrs)
    IN  IF a.ret # NoError
        THEN [ret |-> a.ret, status |-> a.status,
              global_attrs |-> [f \in GlobalAttrFields |-> a.g[f]]]
        ELSE LET p == ProbeEntries(cdf, <<"P","a","r","e","n","t","I","d","e","n","t","i","f","i","e","r","s">>, 0, <<>>)
                 l == ProbeEntries(cdf, <<"R","e","f","e","r","e","n","c","e","L","i","n","k","s">>, 0, <<>>)
                 g == [a.g EXCEPT
                         !.pub_level = imcdf_parse_pub_level_string(a.g.pl_str),
                         !.standard_level = imcdf_parse_standard_level_string(a.g.sl_str),
                         !.parent_identifiers = p.entries,
                         !.reference_links = l.entries]
             IN  [ret |-> CheckMetadata(g, l.status), status |-> l.status,
                  global_attrs |-> [f \in GlobalAttrFields |-> g[f]]]

(***************************************************************************)
(* The memory of the structure filled by imcdf_read_global_attrs.  A block *)
(* is named by the field that points to it; entry is -1 for the block of   *)
(* the field itself and i for the string of entry i of an array of         *)
(* strings.  An address is a block and an offset from its start.           *)
(***************************************************************************)
Address(block, entry, offset) == [block |-> block, entry |-> entry, offset |-> offset]

\* the blocks a successful imcdf_read_global_attrs leaves allocated: one for
\* each string read, one for each entry found by the probe loops and, when
\* realloc was called, the array of pointers
StringFields ==
    {"format_description", "format_version", "title", "iaga_code", "elements_recorded",
     "observatory_name", "institution", "vector_sens_orient", "standard_name",
     "standard_version", "partial_stand_desc", "source", "terms_of_use",
     "unique_identifier"}

ArrayFields == {"parent_identifiers", "reference_links"}

ReadAllocations(g) ==
    {Address(f, -1, 0) : f \in {f \in StringFields : g[f] # NULL}}
    \cup {Address(f, -1, 0) : f \in {f \in ArrayFields : Len(g[f]) > 0}}
    \cup UNION {{Address(f, i - 1, 0) : i \in 1 .. Len(g[f])} : f \in ArrayFields}

\* free (global_attrs->field), or if (global_attrs->field) free (...)
FreeField(g, field, guarded) ==
    IF guarded /\ g[field] = NULL THEN <<>> ELSE <<Address(field, -1, 0)>>

\* for (count=0; count<n; count++) free (array + count);
\* if (array) free (array);
FreeArray(g, field) ==
    [count_1 \in 1 .. Len(g[field]) |-> Address(field, -1, count_1 - 1)]
    \o (IF Len(g[field]) > 0 THEN <<Address(field, -1, 0)>> ELSE <<>>)

\* imcdf_free_global_attrs: the addresses given to free, in the order of the code
imcdf_free_global_attrs(g) ==
    FreeField(g, "format_description", FALSE)
    \o FreeField(g, "format_version", FALSE)
    \o FreeField(g, "title", FALSE)
    \o FreeField(g, "iaga_code", FALSE)
    \o FreeField(g, "elements_recorded", FALSE)
    \o FreeField(g, "observatory_name", FALSE)
    \o FreeField(g, "institution", FALSE)
    \o FreeField(g, "vector_sens_orient", TRUE)
    \o FreeField(g, "standard_name", TRUE)
    \o FreeField(g, "standard_version", TRUE)
    \o FreeField(g, "partial_stand_desc", TRUE)
    \o FreeField(g, "source", FALSE)
    \o FreeField(g, "terms_of_use", TRUE)
    \o FreeField(g, "unique_identifier", TRUE)
    \o FreeArray(g, "parent_identifiers")
    \o FreeArray(g, "reference_links")

\* free of an address that is not the start of an allocated block, or of a
\* block freed before: the behaviour is undefined
UndefinedFree(freed, allocated) ==
    \E i \in DOMAIN freed :
        \/ freed[i] \notin allocated
        \/ \E j \in 1 .. (i - 1) : freed[j] = freed[i]

(***************************************************************************)
(* The CDF library: zVariables and the entries of variable attributes.     *)
(***************************************************************************)
\* CDFgetVarNum
CDFvarExists(cdf, name) == name \in DOMAIN cdf.zvars

\* CDFcreatezVar: a new variable with no record; BAD_VAR_NAME for a name of no
\* character, VAR_EXISTS when the name is in use
CDFcreatezVar(cdf, name, type) ==
    IF name = <<>>
    THEN [status |-> "BAD_VAR_NAME", cdf |-> cdf]
    ELSE IF CDFvarExists(cdf, name)
    THEN [status |-> "VAR_EXISTS", cdf |-> cdf]
    ELSE [status |-> CDF_OK,
          cdf |-> [cdf EXCEPT !.zvars = (name :> [type |-> type, recs |-> <<>>]) @@ @]]

\* CDFgetzVarMaxWrittenRecNum: -1 for a variable with no record
CDFgetzVarMaxWrittenRecNum(cdf, name) == Len(cdf.zvars[name].recs) - 1

\* CDFgetzVarNumRecsWritten
CDFgetzVarNumRecsWritten(cdf, name) == Len(cdf.zvars[name].recs)

\* CDFputzVarRecordData: write record rec_no (records are numbered from 0)
CDFputzVarRecordData(cdf, name, rec_no, value) ==
    LET recs == cdf.zvars[name].recs
        put == [i \in 1 .. (IF rec_no + 1 > Len(recs) THEN rec_no + 1 ELSE Len(recs)) |->
                  IF i = rec_no + 1 THEN value
                  ELSE IF i <= Len(recs) THEN recs[i] ELSE 0]
    IN  [status |-> CDF_OK, cdf |-> [cdf EXCEPT !.zvars[name].recs = put]]

\* CDFputAttrzEntry: write (or overwrite) the entry of a variable in an
\* attribute; ILLEGAL_FOR_SCOPE when the attribute is a global one
CDFputAttrzEntry(cdf, attr_name, var_name, type, value) ==
    LET old == IF attr_name \in DOMAIN cdf.vattrs THEN cdf.vattrs[attr_name] ELSE NoEntries
        new == (var_name :> [type |-> type, val |-> value]) @@ old
    IN  IF attr_name \in DOMAIN cdf.gattrs
        THEN [status |-> "ILLEGAL_FOR_SCOPE", cdf |-> cdf]
        ELSE [status |-> CDF_OK, cdf |-> [cdf EXCEPT !.vattrs = (attr_name :> new) @@ @]]

\* CDFattrNum followed by CDFinquireAttrzEntry: the status and the entry found
CDFinquireAttrzEntry(cdf, attr_name, var_name) ==
    IF ~CDFattrExists(cdf, attr_name) THEN [status |-> "NO_SUCH_ATTR"]
    ELSE IF attr_name \notin DOMAIN cdf.vattrs THEN [status |-> "NO_SUCH_ENTRY"]
    ELSE IF var_name \notin DOMAIN cdf.vattrs[attr_name] THEN [status |-> "NO_SUCH_ENTRY"]
    ELSE [status |-> CDF_OK, entry |-> cdf.vattrs[attr_name][var_name]]

(***************************************************************************)
(* imcdf_low_level.c: variable attributes and data arrays.                 *)
(***************************************************************************)
\* find a variable attribute - if it doesn't exist create it
find_variable_attribute(cdf, status, name) ==
    IF CDFattrExists(cdf, name)
    THEN [rc |-> 0, status |-> status, cdf |-> cdf]
    ELSE LET c == CDFcreateAttr(cdf, name, "VARIABLE_SCOPE")
         IN  [rc |-> IF IsError(c.status) THEN -1 ELSE 0, status |-> c.status, cdf |-> c.cdf]

\* imcdf_add_variable_attr_string / _double / _tt2000 differ in `type' only
imcdf_add_variable_attr(cdf, status, attr_name, var_name, type, value) ==
    LET f == find_variable_attribute(cdf, status, attr_name)
    IN  IF f.rc < 0 THEN [rc |-> -1, status |-> f.status, cdf |-> f.cdf]
        ELSE IF ~CDFvarExists(f.cdf, var_name)
        THEN [rc |-> -1, status |-> "NO_SUCH_VAR", cdf |-> f.cdf]
        ELSE LET p == CDFputAttrzEntry(f.cdf, attr_name, var_name, type, value)
             IN  [rc |-> IF IsError(p.status) THEN -1 ELSE 0, status |-> p.status, cdf |-> p.cdf]

\* the loop of imcdf_append_data_array and imcdf_append_time_stamp_array
RECURSIVE PutRecords(_, _, _, _, _)
PutRecords(cdf, name, data, count, n_recs) ==
    IF count >= Len(data) THEN [rc |-> 0, status |-> CDF_OK, cdf |-> cdf]
    ELSE LET p == CDFputzVarRecordData(cdf, name, count + n_recs, data[count + 1])
         IN  IF IsError(p.status) THEN [rc |-> -1, status |-> p.status, cdf |-> p.cdf]
             ELSE PutRecords(p.cdf, name, data, count + 1, n_recs)

\* imcdf_append_data_array starting one record too far
imcdf_append_data_array_skipping(cdf, status, name, data) ==
    IF ~CDFvarExists(cdf, name) THEN [rc |-> -1, status |-> "NO_SUCH_VAR", cdf |-> cdf]
    ELSE PutRecords(cdf, name, data, 0, CDFgetzVarMaxWrittenRecNum(cdf, name) + 2)

imcdf_append_data_array(cdf, status, name, data) ==
    IF ~CDFvarExists(cdf, name) THEN [rc |-> -1, status |-> "NO_SUCH_VAR", cdf |-> cdf]
    ELSE PutRecords(cdf, name, data, 0, CDFgetzVarMaxWrittenRecNum(cdf, name) + 1)

\* imcdf_append_time_stamp_array writing from the first record on
imcdf_append_time_stamp_array_from_first(cdf, status, name, data) ==
    IF ~CDFvarExists(cdf, name) THEN [rc |-> -1, status |-> "NO_SUCH_VAR", cdf |-> cdf]
    ELSE PutRecords(cdf, name, data, 0, 0)

imcdf_append_time_stamp_array(cdf, status, name, data) ==
    IF ~CDFvarExists(cdf, name) THEN [rc |-> -1, status |-> "NO_SUCH_VAR", cdf |-> cdf]
    ELSE PutRecords(cdf, name, data, 0, CDFgetzVarMaxWrittenRecNum(cdf, name) + 1)

\* imcdf_create_data_array without its call of imcdf_append_data_array
imcdf_create_data_array_empty(cdf, status, name, data) ==
    LET c == CDFcreatezVar(cdf, name, "CDF_DOUBLE")
    IN  IF IsError(c.status) /\ c.status # "VAR_EXISTS"
        THEN [rc |-> -1, status |-> c.status, cdf |-> c.cdf]
        ELSE [rc |-> 0, status |-> c.status, cdf |-> c.cdf]

imcdf_create_data_array(cdf, status, name, data) ==
    LET c == CDFcreatezVar(cdf, name, "CDF_DOUBLE")
    IN  IF IsError(c.status) /\ c.status # "VAR_EXISTS"
        THEN [rc |-> -1, status |-> c.status, cdf |-> c.cdf]
        ELSE imcdf_append_data_array(c.cdf, c.status, name, data)

imcdf_create_time_stamp_array(cdf, status, name, data) ==
    LET c == CDFcreatezVar(cdf, name, "CDF_TIME_TT2000")
    IN  IF IsError(c.status) /\ c.status # "VAR_EXISTS"
        THEN [rc |-> -1, status |-> c.status, cdf |-> c.cdf]
        ELSE imcdf_append_time_stamp_array(c.cdf, c.status, name, data)

\* imcdf_get_variable_attribute_string / _double / _tt2000 differ in `type'
\* only; a variable that is not found leaves the global status as it was
imcdf_get_variable_attribute(cdf, status, attr_name, var_name, type) ==
    IF ~CDFvarExists(cdf, var_name) THEN [rc |-> -1, status |-> status]
    ELSE LET q == CDFinquireAttrzEntry(cdf, attr_name, var_name)
         IN  IF IsNegative(q.status) THEN [rc |-> -1, status |-> q.status]
             ELSE IF q.entry.type # type THEN [rc |-> -1, status |-> q.status]
             ELSE [rc |-> 0, status |-> CDF_OK, value |-> q.entry.val]

\* imcdf_get_var_data and imcdf_get_var_time_stamps differ in `type' only:
\* the records of the variable, or a null pointer
imcdf_get_var_records(cdf, status, var_name, type) ==
    IF ~CDFvarExists(cdf, var_name) THEN [null |-> TRUE, status |-> status]
    ELSE IF cdf.zvars[var_name].type # type THEN [null |-> TRUE, status |-> CDF_OK]
    ELSE [null |-> FALSE, status |-> CDF_OK,
          data |-> SubSeq(cdf.zvars[var_name].recs, 1, CDFgetzVarNumRecsWritten(cdf, var_name))]

\* imcdf_get_var_data asking for the records of an array of time stamps
imcdf_get_var_data_tt2000(cdf, status, var_name) ==
    imcdf_get_var_records(cdf, status, var_name, "CDF_TIME_TT2000")

imcdf_get_var_data(cdf, status, var_name) ==
    imcdf_get_var_records(cdf, status, var_name, "CDF_DOUBLE")
imcdf_get_var_time_stamps(cdf, status, var_name) ==
    imcdf_get_var_records(cdf, status, var_name, "CDF_TIME_TT2000")

(***************************************************************************)
(* imcdf.c: variables and time stamps.                                     *)
(***************************************************************************)
IMCDF_VARTYPE_GEOMAGNETIC_FIELD_ELEMENT == "IMCDF_VARTYPE_GEOMAGNETIC_FIELD_ELEMENT"
IMCDF_VARTYPE_TEMPERATURE == "IMCDF_VARTYPE_TEMPERATURE"
IMCDF_VARTYPE_ERROR == "IMCDF_VARTYPE_ERROR"
VariableTypes ==
    {IMCDF_VARTYPE_GEOMAGNETIC_FIELD_ELEMENT, IMCDF_VARTYPE_TEMPERATURE, IMCDF_VARTYPE_ERROR}

VECTOR_TIME_STAMPS_VAR_NAME == <<"G","e","o","m","a","g","n","e","t","i","c","V","e","c","t","o","r","T","i","m","e","s">>
SCALAR_TIME_STAMPS_VAR_NAME == <<"G","e","o","m","a","g","n","e","t","i","c","S","c","a","l","a","r","T","i","m","e","s">>
\* the name of the temperature time stamps without the element code
TEMPERATURE_TIME_STAMPS_VAR_NAME_fixed(elem_rec) == <<"T","e","m","p","e","r","a","t","u","r","e","T","i","m","e","s">>

\* sprintf (depend_0, TEMPERATURE_TIME_STAMPS_VAR_NAME_BASE, elem_rec)
TEMPERATURE_TIME_STAMPS_VAR_NAME_BASE(elem_rec) == <<"T","e","m","p","e","r","a","t","u","r","e">> \o elem_rec \o <<"T","i","m","e","s">>

\* imcdf_is_vector_gm_data without its test of the variable type
imcdf_is_vector_gm_data_any_type(var_type, elem_rec) ==
    toupper(FirstChar(elem_rec)) \in {"X", "Y", "Z", "H", "D", "E", "V", "I", "F"}

imcdf_is_vector_gm_data(var_type, elem_rec) ==
    IF var_type # IMCDF_VARTYPE_GEOMAGNETIC_FIELD_ELEMENT THEN FALSE
    ELSE toupper(FirstChar(elem_rec)) \in {"X", "Y", "Z", "H", "D", "E", "V", "I", "F"}

imcdf_is_scalar_gm_data(var_type, elem_rec) ==
    IF var_type # IMCDF_VARTYPE_GEOMAGNETIC_FIELD_ELEMENT THEN FALSE
    ELSE toupper(FirstChar(elem_rec)) \in {"S", "G"}

\* create_var_name without its default case
create_var_name_any_type(var_type, elem_rec) ==
    IF var_type = IMCDF_VARTYPE_TEMPERATURE THEN <<"T","e","m","p","e","r","a","t","u","r","e">> \o elem_rec
    ELSE <<"G","e","o","m","a","g","n","e","t","i","c","F","i","e","l","d">> \o elem_rec

\* the name of the data array of a variable, or NULL
create_var_name(var_type, elem_rec) ==
    CASE var_type = IMCDF_VARTYPE_GEOMAGNETIC_FIELD_ELEMENT -> <<"G","e","o","m","a","g","n","e","t","i","c","F","i","e","l","d">> \o elem_rec
      [] var_type = IMCDF_VARTYPE_TEMPERATURE -> <<"T","e","m","p","e","r","a","t","u","r","e">> \o elem_rec
      [] OTHER -> NULL

\* the eight attribute entries imcdf_write_variable makes, in order
VarAttr(name, type, value) == [name |-> name, type |-> type, value |-> value]
\* the same entries with LABLAXIS made before DISPLAY_TYPE
VariableAttrWrites_swapped(variable, depend_0, lablaxis) ==
    << VarAttr(<<"F","I","E","L","D","N","A","M">>, "CDF_CHAR", variable.field_nam),
       VarAttr(<<"U","N","I","T","S">>, "CDF_CHAR", variable.units),
       VarAttr(<<"F","I","L","L","V","A","L">>, "CDF_DOUBLE", variable.fill_val),
       VarAttr(<<"V","A","L","I","D","M","I","N">>, "CDF_DOUBLE", variable.valid_min),
       VarAttr(<<"V","A","L","I","D","M","A","X">>, "CDF_DOUBLE", variable.valid_max),
       VarAttr(<<"D","E","P","E","N","D","_","0">>, "CDF_CHAR", depend_0),
       VarAttr(<<"L","A","B","L","A","X","I","S">>, "CDF_CHAR", lablaxis),
       VarAttr(<<"D","I","S","P","L","A","Y","_","T","Y","P","E">>, "CDF_CHAR", <<"t","i","m","e","_","s","e","r","i","e","s">>) >>

VariableAttrWrites(variable, depend_0, lablaxis) ==
    << VarAttr(<<"F","I","E","L","D","N","A","M">>, "CDF_CHAR", variable.field_nam),
       VarAttr(<<"U","N","I","T","S">>, "CDF_CHAR", variable.units),
       VarAttr(<<"F","I","L","L","V","A","L">>, "CDF_DOUBLE", variable.fill_val),
       VarAttr(<<"V","A","L","I","D","M","I","N">>, "CDF_DOUBLE", variable.valid_min),
       VarAttr(<<"V","A","L","I","D","M","A","X">>, "CDF_DOUBLE", variable.valid_max),
       VarAttr(<<"D","E","P","E","N","D","_","0">>, "CDF_CHAR", depend_0),
       VarAttr(<<"D","I","S","P","L","A","Y","_","T","Y","P","E">>, "CDF_CHAR", <<"t","i","m","e","_","s","e","r","i","e","s">>),
       VarAttr(<<"L","A","B","L","A","X","I","S">>, "CDF_CHAR", lablaxis) >>

RECURSIVE WriteVariableAttrsFrom(_, _, _, _, _)
WriteVariableAttrsFrom(writes, i, var_name, cdf, status) ==
    IF i > Len(writes) THEN [ret |-> NoError, cdf |-> cdf, status |-> status]
    ELSE LET w == writes[i]
             a == imcdf_add_variable_attr(cdf, status, w.name, var_name, w.type, w.value)
         IN  IF a.rc # 0
             THEN [ret |-> format_error_message(<<"E","r","r","o","r"," ","w","r","i","t","i","n","g"," ","v","a","r","i","a","b","l","e"," ","a","t","t","r","i","b","u","t","e">>, w.name,
                                                a.status, a.status),
                   cdf |-> a.cdf, status |-> a.status]
             ELSE WriteVariableAttrsFrom(writes, i + 1, var_name, a.cdf, a.status)

imcdf_write_variable(cdf, status, variable, use_given_depend_0) ==
    LET var_name == create_var_name(variable.var_type, variable.elem_rec)
    IN  IF var_name = NULL
        THEN [ret |-> format_error_message(<<"I","n","v","a","l","i","d"," ","v","a","r","i","a","b","l","e"," ","t","y","p","e">>, NULL, CDF_OK, status),
              cdf |-> cdf, status |-> status]
        ELSE
        LET d == imcdf_create_data_array(cdf, status, var_name, variable.data)
            vector == imcdf_is_vector_gm_data(variable.var_type, variable.elem_rec)
            scalar == imcdf_is_scalar_gm_data(variable.var_type, variable.elem_rec)
            depend_0 ==
                IF use_given_depend_0 THEN variable.depend_0
                ELSE IF vector THEN VECTOR_TIME_STAMPS_VAR_NAME
                ELSE IF scalar THEN SCALAR_TIME_STAMPS_VAR_NAME
                ELSE TEMPERATURE_TIME_STAMPS_VAR_NAME_BASE(variable.elem_rec)
            lablaxis ==
                IF variable.var_type = IMCDF_VARTYPE_TEMPERATURE
                THEN <<"T","e","m","p","e","r","a","t","u","r","e"," ">> \o variable.elem_rec
                ELSE variable.elem_rec
        IN  IF d.rc # 0
            THEN [ret |-> format_error_message(<<"E","r","r","o","r"," ","w","r","i","t","i","n","g"," ","v","a","r","i","a","b","l","e"," ","d","a","t","a">>, var_name,
                                               CDF_OK, d.status),
                  cdf |-> d.cdf, status |-> d.status]
            ELSE IF /\ ~use_given_depend_0 /\ ~vector /\ ~scalar
                    /\ variable.var_type # IMCDF_VARTYPE_TEMPERATURE
            THEN [ret |-> format_error_message(<<"M","i","s","s","i","n","g"," ","o","r"," ","i","n","v","a","l","i","d"," ","e","l","e","m","e","n","t"," ","c","o","d","e">>, NULL,
                                               CDF_OK, d.status),
                  cdf |-> d.cdf, status |-> d.status]
            ELSE WriteVariableAttrsFrom(VariableAttrWrites(variable, depend_0, lablaxis), 1,
                                        var_name, d.cdf, d.status)

imcdf_write_time_stamps(cdf, status, ts) ==
    LET t == imcdf_create_time_stamp_array(cdf, status, ts.var_name, ts.time_stamps)
    IN  [ret |-> IF t.rc # 0
                 THEN format_error_message(<<"E","r","r","o","r"," ","w","r","i","t","i","n","g"," ","t","i","m","e"," ","s","t","a","m","p"," ","d","a","t","a">>, ts.var_name,
                                           CDF_OK, t.status)
                 ELSE NoError,
         cdf |-> t.cdf, status |-> t.status]

\* the fields of struct IMCDFVariable, before anything is stored in them
VariableFields ==
    {"var_type", "elem_rec", "field_nam", "units", "fill_val", "valid_min", "valid_max",
     "depend_0", "data"}
UninitVariable == [f \in VariableFields |-> UNINIT]

\* the six attribute entries imcdf_read_variable reads, in order
VariableAttrReads ==
    << [name |-> <<"F","I","E","L","D","N","A","M">>, type |-> "CDF_CHAR", field |-> "field_nam"],
       [name |-> <<"U","N","I","T","S">>, type |-> "CDF_CHAR", field |-> "units"],
       [name |-> <<"F","I","L","L","V","A","L">>, type |-> "CDF_DOUBLE", field |-> "fill_val"],
       [name |-> <<"V","A","L","I","D","M","I","N">>, type |-> "CDF_DOUBLE", field |-> "valid_min"],
       [name |-> <<"V","A","L","I","D","M","A","X">>, type |-> "CDF_DOUBLE", field |-> "valid_max"],
       [name |-> <<"D","E","P","E","N","D","_","0">>, type |-> "CDF_CHAR", field |-> "depend_0"] >>

RECURSIVE ReadVariableAttrsFrom(_, _, _, _, _, _)
ReadVariableAttrsFrom(reads, i, var_name, cdf, status, variable) ==
    IF i > Len(reads) THEN [ret |-> NoError, status |-> status, variable |-> variable]
    ELSE LET r == reads[i]
             a == imcdf_get_variable_attribute(cdf, status, r.name, var_name, r.type)
         IN  IF a.rc # 0
             THEN [ret |-> format_error_message(<<"E","r","r","o","r"," ","r","e","a","d","i","n","g"," ","v","a","r","i","a","b","l","e"," ","a","t","t","r","i","b","u","t","e">>, r.name,
                                                a.status, a.status),
                   status |-> a.status, variable |-> variable]
             ELSE ReadVariableAttrsFrom(reads, i + 1, var_name, cdf, a.status,
                                        [variable EXCEPT ![r.field] = a.value])

\* the sizes of var_name (in create_var_name and in imcdf_read_variable) and
\* of the elem_rec of struct IMCDFVariable
sizeof_var_name == 30
sizeof_elem_rec == 10

\* the buffers that imcdf_read_variable writes beyond their end: sprintf and
\* strcpy copy the text and its terminator, whatever the size of the target
imcdf_read_variable_overruns(var_type, elem_rec) ==
    LET var_name == create_var_name(var_type, elem_rec)
    IN  IF var_name = NULL THEN {}
        ELSE (IF Len(var_name) + 1 > sizeof_var_name THEN {"var_name"} ELSE {})
             \cup (IF Len(elem_rec) + 1 > sizeof_elem_rec THEN {"variable->elem_rec"} ELSE {})

imcdf_read_variable(cdf, status, var_type, elem_rec) ==
    LET var_name == create_var_name(var_type, elem_rec)
    IN  IF var_name = NULL
        THEN [ret |-> <<"E","r","r","o","r",":"," ","I","n","v","a","l","i","d"," ","v","a","r","i","a","b","l","e"," ","t","y","p","e">>, status |-> status,
              variable |-> UninitVariable]
        ELSE
        LET v0 == [UninitVariable EXCEPT !.var_type = var_type, !.elem_rec = elem_rec]
            m == ReadVariableAttrsFrom(VariableAttrReads, 1, var_name, cdf, status, v0)
            d == imcdf_get_var_data(cdf, m.status, var_name)
        IN  IF m.ret # NoError THEN m
            ELSE IF d.null
            THEN [ret |-> format_error_message(<<"E","r","r","o","r"," ","r","e","a","d","i","n","g"," ","v","a","r","i","a","b","l","e"," ","d","a","t","a">>, var_name,
                                               d.status, d.status),
                  status |-> d.status, variable |-> m.variable]
            ELSE [ret |-> NoError, status |-> d.status,
                  variable |-> [m.variable EXCEPT !.data = d.data]]

imcdf_read_time_stamps(cdf, status, var_name) ==
    LET t == imcdf_get_var_time_stamps(cdf, status, var_name)
    IN  IF t.null
        THEN [ret |-> format_error_message(<<"E","r","r","o","r"," ","r","e","a","d","i","n","g"," ","t","i","m","e"," ","s","t","a","m","p","s">>, var_name,
                                           t.status, t.status),
              status |-> t.status, ts |-> [var_name |-> var_name, time_stamps |-> UNINIT]]
        ELSE [ret |-> NoError, status |-> t.status,
              ts |-> [var_name |-> var_name, time_stamps |-> t.data]]

(***************************************************************************)
(* The records a caller writes: the record of the test program, changed in *)
(* at most MaxChanged fields.                                              *)
(***************************************************************************)
\* the global attributes of the test program
TestGlobalAttrs ==
    [format_description |-> <<>>, format_version |-> <<>>, title |-> <<>>,
     iaga_code |-> <<"A","F","O">>, elements_recorded |-> <<"H","D","Z","S">>, pub_level |-> 1,
     pub_date |-> 0, observatory_name |-> <<"A"," ","F","a","k","e"," ","O","b","s","e","r","v","a","t","o","r","y">>,
     latitude |-> 0, longitude |-> 0, elevation |-> 0,
     institution |-> <<"I","N","T","E","R","M","A","N","G","E","T">>, vector_sens_orient |-> <<"A","B","C">>,
     standard_level |-> "IMCDF_STANDLEVEL_NONE", standard_name |-> NULL,
     standard_version |-> NULL, partial_stand_desc |-> NULL,
     source |-> <<"I","N","T","E","R","M","A","G","N","E","T">>, terms_of_use |-> <<>>, unique_identifier |-> NULL,
     parent_identifiers |-> <<>>, reference_links |-> <<>>]

\* n distinct texts, in a fixed order
EntryTexts(prefix, n) == [i \in 1 .. n |-> prefix \o <<Digits[i + 1]>>]

\* the other values a caller gives to a field
FieldChoices(f) ==
    CASE f = "format_description" ->
           {NULL, <<>>, FORMAT_DESCRIPTION, <<"i","n","t","e","r","m","a","g","n","e","t"," ","c","d","f"," ","f","o","r","m","a","t">>, <<"O","t","h","e","r"," ","F","o","r","m","a","t">>}
      [] f = "format_version" -> {NULL, <<>>, <<"1",".","0">>, <<"1",".","1">>, <<"1",".","2">>, <<"1",".","3">>, <<"1",".","4">>}
      [] f = "title" -> {NULL, <<>>, TITLE, <<"G","E","O","M","A","G","N","E","T","I","C"," ","T","I","M","E"," ","S","E","R","I","E","S"," ","D","A","T","A">>, <<"O","t","h","e","r"," ","t","i","t","l","e">>}
      [] f = "iaga_code" -> {NULL, <<"E","S","K">>}
      [] f = "elements_recorded" -> {NULL, <<"X","Y","Z","G">>}
      [] f = "pub_level" -> PubLevels
      [] f = "pub_date" -> {5}
      [] f = "observatory_name" -> {NULL, <<"E","s","k","d","a","l","e","m","u","i","r">>}
      [] f = "latitude" -> {55}
      [] f = "longitude" -> {-3}
      [] f = "elevation" -> {245}
      [] f = "institution" -> {NULL, <<"B","G","S">>}
      [] f = "vector_sens_orient" -> {NULL, <<"H","D","Z">>}
      [] f = "standard_level" -> StandardLevels
      [] f = "standard_name" -> {<<"I","N","T","E","R","M","A","G","N","E","T","_","1","-","S","e","c","o","n","d">>}
      [] f = "standard_version" -> {<<"1",".","0">>}
      [] f = "partial_stand_desc" -> {<<"I","M","O","S","-","0","1">>}
      [] f = "source" -> {NULL, <<"W","D","C">>}
      [] f = "terms_of_use" -> {NULL, <<"O","w","n"," ","t","e","r","m","s">>}
      [] f = "unique_identifier" -> {<<"d","o","i",":","1","0",".","1","/","x">>}
      [] f = "parent_identifiers" -> {EntryTexts(<<"p","a","r","e","n","t">>, n) : n \in 1 .. MaxEntries}
      [] f = "reference_links" -> {EntryTexts(<<"l","i","n","k">>, n) : n \in 1 .. MaxEntries}

RECURSIVE ChangedRecords(_)
ChangedRecords(k) ==
    IF k = 0 THEN {TestGlobalAttrs}
    ELSE LET fewer == ChangedRecords(k - 1)
         IN  fewer \cup UNION {{[g EXCEPT ![f] = v] : v \in FieldChoices(f)} :
                                 g \in fewer, f \in GlobalAttrFields}

CallerRecords == ChangedRecords(MaxChanged)

(***************************************************************************)
(* The datasets a caller opens: the dataset the test program writes, with  *)
(* at most MaxChanged of its global attributes removed, retyped or given   *)
(* another content (a file may come from any writer of the format).        *)
(***************************************************************************)
TestCDF == imcdf_write_global_attrs(EmptyCDF, CDF_OK, TestGlobalAttrs).cdf

Absent == [present |-> FALSE, entries |-> NoEntries]
Present(entries) == [present |-> TRUE, entries |-> entries]
CharEntry(s) == [type |-> "CDF_CHAR", val |-> s]
OneEntry(e) == Present(0 :> e)
TextEntries(texts) == [i \in 0 .. Len(texts) - 1 |-> CharEntry(texts[i + 1])]

RepeatableAttrs == {<<"P","a","r","e","n","t","I","d","e","n","t","i","f","i","e","r","s">>, <<"R","e","f","e","r","e","n","c","e","L","i","n","k","s">>}
GlobalAttrNames == {GlobalAttrReads[i].name : i \in DOMAIN GlobalAttrReads} \cup RepeatableAttrs

\* the type imcdf_read_global_attrs expects of an attribute
ExpectedType(name) ==
    IF name \in RepeatableAttrs THEN "CDF_CHAR"
    ELSE GlobalAttrReads[CHOOSE i \in DOMAIN GlobalAttrReads : GlobalAttrReads[i].name = name].type

\* an entry of a type the reader does not expect
WrongTyped(name) ==
    IF ExpectedType(name) = "CDF_CHAR"
    THEN [type |-> "CDF_DOUBLE", val |-> 7]
    ELSE CharEntry(<<"s","e","v","e","n">>)

\* other texts stored under an attribute
OtherTexts(name) ==
    CASE name = <<"T","i","t","l","e">> -> {<<"g","e","o","m","a","g","n","e","t","i","c"," ","T","I","M","E"," ","s","e","r","i","e","s"," ","d","a","t","a">>, <<"O","t","h","e","r"," ","t","i","t","l","e">>}
      [] name = <<"F","o","r","m","a","t","D","e","s","c","r","i","p","t","i","o","n">> -> {<<"I","n","t","e","r","m","a","g","n","e","t"," ","C","D","F"," ","f","o","r","m","a","t">>, <<"O","t","h","e","r"," ","F","o","r","m","a","t">>}
      [] name = <<"F","o","r","m","a","t","V","e","r","s","i","o","n">> -> {<<"1",".","0">>, <<"1",".","1">>, <<"1",".","2">>, <<"1",".","3">>, <<"1",".","4">>}
      [] name = <<"P","u","b","l","i","c","a","t","i","o","n","L","e","v","e","l">> -> {<<"2">>, <<"3">>, <<"4">>, <<"5">>, <<"o","n","e">>}
      [] name = <<"S","t","a","n","d","a","r","d","L","e","v","e","l">> -> {<<"F","U","L","L">>, <<"p","a","r","t","i","a","l">>, <<"M","a","y","b","e">>}
      [] name \in {<<"V","e","c","t","o","r","S","e","n","s","O","r","i","e","n","t">>, <<"S","t","a","n","d","a","r","d","N","a","m","e">>, <<"S","t","a","n","d","a","r","d","V","e","r","s","i","o","n">>,
                   <<"P","a","r","t","i","a","l","S","t","a","n","d","D","e","s","c">>, <<"T","e","r","m","s","O","f","U","s","e">>, <<"U","n","i","q","u","e","I","d","e","n","t","i","f","i","e","r">>} -> {<<"t","e","x","t">>}
      [] OTHER -> {}

\* the contents given to a repeatable attribute: n entries, the last one
\* possibly of the wrong type
RepeatedContents(name) ==
    LET texts(n) == EntryTexts(<<"e","n","t","r","y">>, n)
    IN  {Present(TextEntries(texts(n))) : n \in 1 .. MaxEntries}
        \cup {Present((n - 1 :> WrongTyped(name)) @@ TextEntries(texts(n))) :
                n \in 1 .. MaxEntries}

AttrContents(name) ==
    {Absent, OneEntry(WrongTyped(name))}
    \cup {OneEntry(CharEntry(s)) : s \in OtherTexts(name)}
    \cup (IF name \in RepeatableAttrs THEN RepeatedContents(name) ELSE {})

WithAttr(cdf, name, content) ==
    IF content.present
    THEN [cdf EXCEPT !.gattrs = (name :> content.entries) @@ @]
    ELSE [cdf EXCEPT !.gattrs = [n \in (DOMAIN @) \ {name} |-> @[n]]]

RECURSIVE ChangedFiles(_)
ChangedFiles(k) ==
    IF k = 0 THEN {TestCDF}
    ELSE LET fewer == ChangedFiles(k - 1)
         IN  fewer \cup UNION {{WithAttr(c, name, content) : content \in AttrContents(name)} :
                                 c \in fewer, name \in GlobalAttrNames}

Files == ChangedFiles(MaxChanged)

(***************************************************************************)
(* The files of the title specification: the dataset of the test program   *)
(* with a title of one letter repeated, of at most MaxTitleLen characters.  *)
(***************************************************************************)
LongTitle(n) == [i \in 1 .. n |-> "T"]
LongTitleFiles ==
    {WithAttr(TestCDF, <<"T","i","t","l","e">>, OneEntry(CharEntry(LongTitle(n)))) :
        n \in (MaxTitleLen - 60) .. MaxTitleLen}

(***************************************************************************)
(* The format versions stored in the files of the version specification:   *)
(* every text of at most MaxVerLen characters.                             *)
(***************************************************************************)
VersionTexts == StringsUpTo({"0", "1", "3", "4", "5", ".", "v"}, MaxVerLen)
VersionFile(s) == WithAttr(TestCDF, <<"F","o","r","m","a","t","V","e","r","s","i","o","n">>, OneEntry(CharEntry(s)))

(***************************************************************************)
(* The variables and time stamps a caller writes: those of the test        *)
(* program, with at most MaxDataLen samples.                               *)
(***************************************************************************)
IMCDF_MISSING_DATA_VALUE == 99999

\* the samples and the time stamps of the test program stand as integers
Samples(n) == [i \in 1 .. n |-> (7 * i) % 5]
TimeStamps(n) == [i \in 1 .. n |-> 60 * i]

\* DataTimes is the name the test program gives to its time stamps
TestVariable(var_type, elem_rec, n) ==
    IF var_type = IMCDF_VARTYPE_TEMPERATURE
    THEN [var_type |-> var_type, elem_rec |-> elem_rec,
          field_nam |-> <<"T","e","m","p","e","r","a","t","u","r","e"," ">> \o elem_rec, units |-> <<"C","e","l","c","i","u","s">>,
          fill_val |-> IMCDF_MISSING_DATA_VALUE, valid_min |-> -100, valid_max |-> 100,
          depend_0 |-> <<"D","a","t","a","T","i","m","e","s">>, data |-> Samples(n)]
    ELSE [var_type |-> var_type, elem_rec |-> elem_rec,
          field_nam |-> <<"G","e","o","m","a","g","n","e","t","i","c"," ","F","i","e","l","d"," ","E","l","e","m","e","n","t"," ">> \o elem_rec, units |-> <<"n","T">>,
          fill_val |-> IMCDF_MISSING_DATA_VALUE, valid_min |-> -80000, valid_max |-> 80000,
          depend_0 |-> <<"D","a","t","a","T","i","m","e","s">>, data |-> Samples(n)]

\* the (type, element code) pairs of the variables written and asked for
VariableKinds ==
    { <<IMCDF_VARTYPE_GEOMAGNETIC_FIELD_ELEMENT, <<"H">>>>,
      <<IMCDF_VARTYPE_GEOMAGNETIC_FIELD_ELEMENT, <<"d">>>>,
      <<IMCDF_VARTYPE_GEOMAGNETIC_FIELD_ELEMENT, <<"S">>>>,
      <<IMCDF_VARTYPE_GEOMAGNETIC_FIELD_ELEMENT, <<"Q">>>>,
      <<IMCDF_VARTYPE_TEMPERATURE, <<"2">>>>,
      <<IMCDF_VARTYPE_ERROR, <<"H">>>> }

Variables == {TestVariable(k[1], k[2], n) : k \in VariableKinds, n \in 0 .. MaxDataLen}

\* the names of the attributes of a variable
VariableAttrNames ==
    {<<"F","I","E","L","D","N","A","M">>, <<"U","N","I","T","S">>, <<"F","I","L","L","V","A","L">>, <<"V","A","L","I","D","M","I","N">>, <<"V","A","L","I","D","M","A","X">>, <<"D","E","P","E","N","D","_","0">>,
     <<"D","I","S","P","L","A","Y","_","T","Y","P","E">>, <<"L","A","B","L","A","X","I","S">>}

\* codes that are too long for elem_rec, and for a var_name
LongCodes ==
    LET Repeat(c, n) == [i \in 1 .. n |-> c]
    IN  { <<IMCDF_VARTYPE_GEOMAGNETIC_FIELD_ELEMENT, Repeat("H", sizeof_elem_rec)>>,
          <<IMCDF_VARTYPE_GEOMAGNETIC_FIELD_ELEMENT, Repeat("H", sizeof_var_name - 16)>>,
          <<IMCDF_VARTYPE_TEMPERATURE, Repeat("2", sizeof_var_name - 11)>>,
          <<IMCDF_VARTYPE_ERROR, Repeat("H", sizeof_var_name)>> }

\* sprintf (elem_rec, "%d", count) for a count that is not negative
RECURSIVE sprintf_d(_)
sprintf_d(n) ==
    IF n < 10 THEN <<Digits[n + 1]>> ELSE sprintf_d(n \div 10) \o <<Digits[(n % 10) + 1]>>

\* the dataset a program makes by writing the temperature variables of the
\* given channels, in the order of their numbers, each with n samples
RECURSIVE WriteChannels(_, _, _, _, _)
WriteChannels(cdf, status, channels, c, n) ==
    IF c > MaxChannels THEN cdf
    ELSE IF c \notin channels THEN WriteChannels(cdf, status, channels, c + 1, n)
    ELSE LET w == imcdf_write_variable(cdf, status,
                                       TestVariable(IMCDF_VARTYPE_TEMPERATURE, sprintf_d(c), n),
                                       FALSE)
         IN  WriteChannels(w.cdf, w.status, channels, c + 1, n)

TemperatureFiles ==
    {WriteChannels(EmptyCDF, CDF_OK, channels, 1, n) :
       channels \in SUBSET (1 .. MaxChannels), n \in 0 .. MaxDataLen}

TimeStampNames ==
    {VECTOR_TIME_STAMPS_VAR_NAME, SCALAR_TIME_STAMPS_VAR_NAME,
     TEMPERATURE_TIME_STAMPS_VAR_NAME_BASE(<<"2">>), <<"D","a","t","a","T","i","m","e","s">>, <<"G","e","o","m","a","g","n","e","t","i","c","F","i","e","l","d","H">>, <<>>}

TimeSeries ==
    {[var_name |-> name, time_stamps |-> TimeStamps(n)] :
       name \in TimeStampNames, n \in 0 .. MaxDataLen}

\* the series written one after the other: runs of the time stamps of the
\* test program, from its first or from its second one
AppendedSeries ==
    {[var_name |-> name, time_stamps |-> SubSeq(TimeStamps(MaxDataLen + 1), first, first + n - 1)] :
       name \in {VECTOR_TIME_STAMPS_VAR_NAME, <<"D","a","t","a","T","i","m","e","s">>},
       first \in 1 .. 2, n \in 0 .. MaxDataLen}

(***************************************************************************)
(* The element codes given to the classification functions: every text of  *)
(* at most MaxCodeLen characters.                                          *)
(***************************************************************************)
ElementCodes ==
    StringsUpTo({"X", "Y", "Z", "H", "D", "E", "V", "I", "F", "S", "G", "T", "A",
                 "h", "x", "s", "g", "1", "2"}, MaxCodeLen)

(***************************************************************************)
(* long long.  The numbers of TLC have 32 bits, so a long long is held as  *)
(* days, seconds of the day and nanoseconds of the second; its value is    *)
(* (day * 86400 + sec) * 1000000000 + ns, and every long long has one      *)
(* such form with sec in 0 .. 86399 and ns in 0 .. 999999999.              *)
(***************************************************************************)
\* a local variable: the value is computed once and then used in Body
With(value, Body(_)) == CHOOSE result \in {Body(v) : v \in {value}} : TRUE

LongLong(day, sec, ns) ==
    LET s == sec + (ns \div 1000000000)
    IN  [day |-> day + (s \div 86400), sec |-> s % 86400, ns |-> ns % 1000000000]

\* 2^63 - 1 and -2^63
LLONG_MAX == [day |-> 106751, sec |-> 85636, ns |-> 854775807]
LLONG_MIN == [day |-> -106752, sec |-> 763, ns |-> 145224192]

\* a <= b
LessEq(a, b) ==
    \/ a.day < b.day
    \/ a.day = b.day /\ a.sec < b.sec
    \/ a.day = b.day /\ a.sec = b.sec /\ a.ns <= b.ns

\* the sum and the difference of the integers, which may not fit a long long
Plus(a, b) == LongLong(a.day + b.day, a.sec + b.sec, a.ns + b.ns)
Minus(a, b) == LongLong(a.day - b.day, a.sec - b.sec, a.ns - b.ns)

FitsLongLong(a) == LessEq(LLONG_MIN, a) /\ LessEq(a, LLONG_MAX)

\* the long long congruent to the integer modulo 2^64: what the addition of
\* the processor leaves when the sum does not fit
WrapLongLong(a) ==
    LET two64 == [day |-> 213503, sec |-> 84873, ns |-> 709551616]
    IN  IF FitsLongLong(a) THEN a
        ELSE IF LessEq(a, LLONG_MIN) THEN Plus(a, two64)
        ELSE Minus(a, two64)

\* (long long) inc * 1000000000ll, for an int inc: the product always fits
SecondsToNanos(inc) == LongLong(inc \div 86400, inc % 86400, 0)

(***************************************************************************)
(* The CDF library: TT2000, the nanoseconds since 2000-01-01T12:00:00 TT,  *)
(* and the UTC calendar, for the dates from 1972 on.                       *)
(***************************************************************************)
\* the days from 2000-01-01 to the date of the Gregorian calendar
DaysFromCivil(year, month, day) ==
    LET y == IF month <= 2 THEN year - 1 ELSE year
        era == y \div 400
        yoe == y - era * 400
        mp == IF month > 2 THEN month - 3 ELSE month + 9
        doy == ((153 * mp + 2) \div 5) + day - 1
        doe == yoe * 365 + (yoe \div 4) - (yoe \div 100) + doy
    IN  era * 146097 + doe - 719468 - 10957

\* the date that many days after 2000-01-01
CivilFromDays(days) ==
    LET z == days + 10957 + 719468
        era == z \div 146097
        doe == z - era * 146097
        yoe == (doe - (doe \div 1460) + (doe \div 36524) - (doe \div 146096)) \div 365
        doy == doe - (365 * yoe + (yoe \div 4) - (yoe \div 100))
        mp == (5 * doy + 2) \div 153
        month == IF mp < 10 THEN mp + 3 ELSE mp - 9
    IN  [year |-> yoe + era * 400 + (IF month <= 2 THEN 1 ELSE 0), month |-> month,
         day |-> doy - ((153 * mp + 2) \div 5) + 1]

\* the table of leap seconds: the first day of each value of TAI - UTC
LeapSeconds ==
    << <<1972, 1, 10>>, <<1972, 7, 11>>, <<1973, 1, 12>>, <<1974, 1, 13>>, <<1975, 1, 14>>,
       <<1976, 1, 15>>, <<1977, 1, 16>>, <<1978, 1, 17>>, <<1979, 1, 18>>, <<1980, 1, 19>>,
       <<1981, 7, 20>>, <<1982, 7, 21>>, <<1983, 7, 22>>, <<1985, 7, 23>>, <<1988, 1, 24>>,
       <<1990, 1, 25>>, <<1991, 1, 26>>, <<1992, 7, 27>>, <<1993, 7, 28>>, <<1994, 7, 29>>,
       <<1996, 1, 30>>, <<1997, 7, 31>>, <<1999, 1, 32>>, <<2006, 1, 33>>, <<2009, 1, 34>>,
       <<2012, 7, 35>>, <<2015, 7, 36>>, <<2017, 1, 37>> >>

\* the first day of the i-th value, and the number of values in force on a day
LeapDay(i) == DaysFromCivil(LeapSeconds[i][1], LeapSeconds[i][2], 1)
LeapIndex(days) ==
    LET before == {i \in DOMAIN LeapSeconds : LeapDay(i) <= days}
    IN  IF before = {} THEN 1 ELSE CHOOSE i \in before : \A j \in before : j <= i

\* TT2000 of 00:00:00 UTC of a day plus some seconds, under the i-th value of
\* TAI - UTC: TT = UTC + (TAI - UTC) + 32.184 s, counted from noon TT
TT2000At(days, seconds, i) ==
    LongLong(days, seconds - 43200 + LeapSeconds[i][3] + 32, 184000000)

\* CDF_TT2000_from_UTC_parts with no fraction of a second, for a date and a
\* time of the calendar
CDF_TT2000_from_UTC_parts(year, month, day, hour, min, sec) ==
    LET days == DaysFromCivil(year, month, day)
    IN  TT2000At(days, hour * 3600 + min * 60 + sec, LeapIndex(days))

\* CDF_TT2000_to_UTC_parts with TT2000NULL after the seconds: the seconds
\* carry the fraction, held here apart as ns; the second 60 is a leap second
CDF_TT2000_to_UTC_parts(tt2000) ==
    LET starts == {i \in DOMAIN LeapSeconds : LessEq(TT2000At(LeapDay(i), 0, i), tt2000)}
        Last(set) == IF set = {} THEN 1 ELSE CHOOSE k \in set : \A j \in set : j <= k
        InLeap(i) == /\ i + 1 \in DOMAIN LeapSeconds
                     /\ LessEq(TT2000At(LeapDay(i + 1), -1, i + 1), tt2000)
        Parts(utc, date, leap) ==
            [year |-> date.year, month |-> date.month, day |-> date.day,
             hour |-> utc.sec \div 3600, min |-> (utc.sec % 3600) \div 60,
             sec |-> (utc.sec % 60) + leap, ns |-> utc.ns]
        At(utc, leap) == With(CivilFromDays(utc.day), LAMBDA date : Parts(utc, date, leap))
    IN  With(Last(starts), LAMBDA i :
            IF InLeap(i)
            THEN With(Minus(tt2000, TT2000At(0, 0, i + 1)), LAMBDA utc : At(utc, 1))
            ELSE With(Minus(tt2000, TT2000At(0, 0, i)), LAMBDA utc : At(utc, 0)))

(***************************************************************************)
(* imcdf_low_level.c: TT2000 data manipulation.                            *)
(***************************************************************************)
\* the years of the dates that TT2000 can hold; the library answers
\* ILLEGAL_TT2000_VALUE for a date it cannot hold
IsLegalDate(year) == year >= 1708 /\ year <= 2291

imcdf_date_time_to_tt2000(year, month, day, hour, min, sec) ==
    IF ~IsLegalDate(year) THEN [rc |-> -1, status |-> "BAD_ARGUMENT"]
    ELSE [rc |-> 0, status |-> CDF_OK,
          tt2000 |-> CDF_TT2000_from_UTC_parts(year, month, day, hour, min, sec)]

\* the parts as int; *sec = (int) (d_sec + 0.5)
imcdf_tt2000_to_date_time(tt2000) ==
    With(CDF_TT2000_to_UTC_parts(tt2000), LAMBDA d :
        [year |-> d.year, month |-> d.month, day |-> d.day, hour |-> d.hour, min |-> d.min,
         sec |-> d.sec + (IF d.ns >= 500000000 THEN 1 ELSE 0)])

\* tt2000 + ((long long) inc * 1000000000ll): the sum does not fit a long long
imcdf_tt2000_inc_overflows(tt2000, inc) == ~FitsLongLong(Plus(tt2000, SecondsToNanos(inc)))

\* imcdf_tt2000_inc with the product left out
imcdf_tt2000_inc_nanos(tt2000, inc) == WrapLongLong(Plus(tt2000, LongLong(0, 0, inc)))

\* the value returned; when the sum does not fit, the one the addition of the
\* processor leaves
imcdf_tt2000_inc(tt2000, inc) == WrapLongLong(Plus(tt2000, SecondsToNanos(inc)))

\* the loop of imcdf_make_tt2000_array
RECURSIVE FillArray(_, _, _, _, _)
FillArray(tt2000_array, tt2000, increment, count, n_samples) ==
    IF count >= n_samples THEN tt2000_array
    ELSE FillArray(Append(tt2000_array, tt2000), imcdf_tt2000_inc(tt2000, increment),
                   increment, count + 1, n_samples)

\* malloc_ok: malloc has returned a block.  The result is the pointer
\* returned, the array it points to and the status that
\* imcdf_get_last_status_code will give.
imcdf_make_tt2000_array(status, date, increment, n_samples, malloc_ok) ==
    With(imcdf_date_time_to_tt2000(date[1], date[2], date[3], date[4], date[5], date[6]),
         LAMBDA t :
        IF ~malloc_ok THEN [ret |-> NULL, tt2000_array |-> <<>>, status |-> status]
        ELSE IF t.rc # 0 THEN [ret |-> NULL, tt2000_array |-> <<>>, status |-> t.status]
        ELSE [ret |-> <<"t","t","2","0","0","0","_","a","r","r","a","y">>,
              tt2000_array |-> FillArray(<<>>, t.tt2000, increment, 0, n_samples),
              status |-> t.status])

\* one of the calls of imcdf_tt2000_inc in the loop has a sum that does not
\* fit: every element is incremented, the last one too
imcdf_make_tt2000_array_overflows(tt2000_array, increment) ==
    \E i \in DOMAIN tt2000_array : imcdf_tt2000_inc_overflows(tt2000_array[i], increment)

\* A number of 32 bits as its two halves of 16 bits, and the arithmetic
\* modulo 2^32 on such numbers: the conversions to int and to a long of 32
\* bits keep the low 32 bits.
Word(n) == <<(n \div 65536) % 65536, n % 65536>>
WordPlus(a, b) == <<(a[1] + b[1] + ((a[2] + b[2]) \div 65536)) % 65536, (a[2] + b[2]) % 65536>>
\* k < 32768
WordTimes(a, k) == <<(a[1] * k + ((a[2] * k) \div 65536)) % 65536, (a[2] * k) % 65536>>
WordToInt(a) == (IF a[1] >= 32768 THEN a[1] - 65536 ELSE a[1]) * 65536 + a[2]

\* day * 86400 + sec + more, modulo 2^32
SecondsWord(a, more) == WordPlus(WordTimes(WordTimes(Word(a.day), 864), 100), Word(a.sec + more))

\* the widths of long in the builds gcc makes
LongWidths == {32, 64}

\* diff = (long) (tt2000_array[1] - tt2000_array[0]);
\* return (int) (diff / 1000000000l);
imcdf_calc_samp_per_from_tt2000(tt2000_array, long_bits) ==
    With(WrapLongLong(Minus(tt2000_array[2], tt2000_array[1])), LAMBDA diff :
        IF long_bits = 64
        THEN WordToInt(SecondsWord(diff, IF diff.day < 0 /\ diff.ns > 0 THEN 1 ELSE 0))
        ELSE With(WordToInt(WordPlus(WordTimes(WordTimes(WordTimes(SecondsWord(diff, 0),
                                                                   1000), 1000), 1000),
                                     Word(diff.ns))),
                  LAMBDA long_diff :
                      IF long_diff >= 0 THEN long_diff \div 1000000000
                      ELSE (long_diff \div 1000000000)
                           + (IF long_diff % 1000000000 # 0 THEN 1 ELSE 0)))

(***************************************************************************)
(* imcdf.c: the name of a file.                                            *)
(***************************************************************************)
\* enum IMCDFInterval, with one value for every enumerator the switches of
\* imcdf_make_filename do not name
IMCDFIntervals ==
    {"IMCDF_INT_ANNUAL", "IMCDF_INT_MONTHLY", "IMCDF_INT_DAILY", "IMCDF_INT_HOURLY",
     "IMCDF_INT_MINUTE", "IMCDF_INT_SECOND", "IMCDF_INT_UNKNOWN"}

\* sprintf ("%04d") and sprintf ("%02d") of a number that is not negative
sprintf_0d(width, n) ==
    LET text == sprintf_d(n)
    IN  [i \in 1 .. (IF Len(text) < width THEN width - Len(text) ELSE 0) |-> "0"] \o text

imcdf_make_filename(prefix, station_code, start_date, pub_level, cadence, coverage, force_lower_case) ==
    LET cadence_str ==
            CASE cadence = "IMCDF_INT_ANNUAL" -> <<"p","1","y">>
              [] cadence = "IMCDF_INT_MONTHLY" -> <<"p","1","m">>
              [] cadence = "IMCDF_INT_DAILY" -> <<"p","1","d">>
              [] cadence = "IMCDF_INT_HOURLY" -> <<"p","t","1","h">>
              [] cadence = "IMCDF_INT_MINUTE" -> <<"p","t","1","m">>
              [] cadence = "IMCDF_INT_SECOND" -> <<"p","t","1","s">>
              [] OTHER -> <<"u","n","k","n">>
        file_base(t) ==
            LET year == sprintf_0d(4, t.year)
                month == sprintf_0d(2, t.month)
                day == sprintf_0d(2, t.day)
                hour == sprintf_0d(2, t.hour)
                min == sprintf_0d(2, t.min)
                sec == sprintf_0d(2, t.sec)
            IN  CASE coverage = "IMCDF_INT_ANNUAL" -> year \o <<"_">> \o cadence_str
                  [] coverage = "IMCDF_INT_MONTHLY" -> year \o month \o <<"_">> \o cadence_str
                  [] coverage = "IMCDF_INT_DAILY" ->
                        year \o month \o day \o <<"_">> \o cadence_str
                  [] coverage = "IMCDF_INT_HOURLY" ->
                        year \o month \o day \o <<"_">> \o hour \o <<"_">> \o cadence_str
                  [] coverage = "IMCDF_INT_MINUTE" ->
                        year \o month \o day \o <<"_">> \o hour \o min \o <<"_">> \o cadence_str
                  [] OTHER ->
                        year \o month \o day \o <<"_">> \o hour \o min \o sec \o <<"_">>
                             \o cadence_str
        pre == IF prefix = NULL THEN <<>> ELSE prefix
        sprintf(t) == pre \o station_code \o <<"_">> \o file_base(t) \o <<"_">>
                          \o imcdf_pub_level_code_tostring(pub_level) \o <<".","c","d","f">>
        lower(filename) ==
            [i \in DOMAIN filename |->
               IF i > Len(pre) THEN tolower(filename[i]) ELSE filename[i]]
    IN  With(imcdf_tt2000_to_date_time(start_date), LAMBDA t :
            With(sprintf(t), LAMBDA filename :
                IF force_lower_case THEN lower(filename) ELSE filename))

\* the start dates given to imcdf_make_filename: the date and the time of the
\* calendar, the nanoseconds after it, and the date and the time of the
\* nearest whole second
StartDates ==
    { [date |-> <<1980, 1, 1, 0, 0, 0>>, ns |-> 0, nearest |-> <<1980, 1, 1, 0, 0, 0>>],
      [date |-> <<2016, 2, 29, 23, 7, 5>>, ns |-> 0, nearest |-> <<2016, 2, 29, 23, 7, 5>>],
      [date |-> <<2000, 12, 31, 9, 30, 58>>, ns |-> 499999999,
       nearest |-> <<2000, 12, 31, 9, 30, 58>>],
      [date |-> <<1999, 12, 31, 23, 59, 59>>, ns |-> 500000000,
       nearest |-> <<2000, 1, 1, 0, 0, 0>>] }

\* the epoch of a start date
EpochOf(d) ==
    Plus(CDF_TT2000_from_UTC_parts(d.date[1], d.date[2], d.date[3], d.date[4], d.date[5],
                                   d.date[6]),
         LongLong(0, 0, d.ns))

FilenameCalls ==
    [prefix : {NULL, <<>>, <<"O","u","t","/">>}, station_code : {<<"A","F","O">>, <<"C","z","2">>}, start : StartDates,
     pub_level : PubLevels, cadence : IMCDFIntervals, coverage : IMCDFIntervals,
     force_lower_case : BOOLEAN]

\* the epochs and the numbers of seconds given to imcdf_tt2000_inc: the
\* dates of the test program, the ends of long long and the ends of int
IncEpochs ==
    { CDF_TT2000_from_UTC_parts(2000, 1, 1, 0, 0, 0),
      CDF_TT2000_from_UTC_parts(1980, 1, 1, 0, 0, 0),
      LongLong(0, 0, 0), LLONG_MAX, LLONG_MIN }

INT_MAX == 2147483647
INT_MIN == -2147483647 - 1
Incs == {0, 1, -1, 60, -60, 86400, INT_MAX, -INT_MAX, INT_MIN}

(***************************************************************************)
(* imcdf_low_level.c: the table of the open datasets.  An operation takes  *)
(* cdf_ids, cdf_index and the last status and gives them back with its     *)
(* return value.                                                           *)
(***************************************************************************)
MAX_OPEN_CDF_FILES == 10

OpenTypes == {"IMCDF_FORCE_CREATE", "IMCDF_CREATE", "IMCDF_OPEN"}

initialise_cdf_ids(ids, index, status) ==
    IF index < 0
    THEN [cdf_ids |-> [count \in 0 .. MAX_OPEN_CDF_FILES - 1 |-> 0], cdf_index |-> 0,
          status |-> CDF_OK]
    ELSE [cdf_ids |-> ids, cdf_index |-> index, status |-> status]

\* after initialise_cdf_ids
sanity_check_handles(index, cdf_handle) ==
    IF cdf_handle < 0 THEN -1
    ELSE IF cdf_handle >= index THEN -1
    ELSE 0

\* imcdf_open without the check that there is space for another file
imcdf_open_unchecked(ids, index, status, open_type, compress_type, lib) ==
    With(initialise_cdf_ids(ids, index, status), LAMBDA t :
        IF open_type \notin OpenTypes
        THEN [ret |-> -1, opened |-> FALSE, cdf_ids |-> t.cdf_ids, cdf_index |-> t.cdf_index,
              status |-> t.status]
        ELSE IF IsError(lib.open)
        THEN [ret |-> -1, opened |-> FALSE, cdf_ids |-> t.cdf_ids, cdf_index |-> t.cdf_index,
              status |-> lib.open]
        ELSE IF /\ open_type # "IMCDF_OPEN"
                /\ compress_type # "IMCDF_COMPRESS_NONE"
                /\ IsError(lib.compress)
        THEN [ret |-> -1, opened |-> TRUE, cdf_ids |-> t.cdf_ids, cdf_index |-> t.cdf_index,
              status |-> lib.compress]
        ELSE [ret |-> t.cdf_index, opened |-> TRUE,
              cdf_ids |-> [i \in DOMAIN t.cdf_ids \cup {t.cdf_index} |->
                              IF i = t.cdf_index THEN lib.id ELSE t.cdf_ids[i]],
              cdf_index |-> t.cdf_index + 1, status |-> CDF_OK])

\* lib: what the CDF library answers when it is called: the status of
\* CDFcreateCDF or CDFopenCDF, the status of CDFsetCompression and the id of
\* the dataset opened.  opened: the library has opened the dataset.
imcdf_open(ids, index, status, open_type, compress_type, lib) ==
    With(initialise_cdf_ids(ids, index, status), LAMBDA t :
        IF t.cdf_index >= MAX_OPEN_CDF_FILES
        THEN [ret |-> -1, opened |-> FALSE, cdf_ids |-> t.cdf_ids, cdf_index |-> t.cdf_index,
              status |-> t.status]
        ELSE IF open_type \notin OpenTypes
        THEN [ret |-> -1, opened |-> FALSE, cdf_ids |-> t.cdf_ids, cdf_index |-> t.cdf_index,
              status |-> t.status]
        ELSE IF IsError(lib.open)
        THEN [ret |-> -1, opened |-> FALSE, cdf_ids |-> t.cdf_ids, cdf_index |-> t.cdf_index,
              status |-> lib.open]
        ELSE IF /\ open_type # "IMCDF_OPEN"
                /\ compress_type # "IMCDF_COMPRESS_NONE"
                /\ IsError(lib.compress)
        THEN [ret |-> -1, opened |-> TRUE, cdf_ids |-> t.cdf_ids, cdf_index |-> t.cdf_index,
              status |-> lib.compress]
        ELSE [ret |-> t.cdf_index, opened |-> TRUE,
              cdf_ids |-> [t.cdf_ids EXCEPT ![t.cdf_index] = lib.id],
              cdf_index |-> t.cdf_index + 1,
              status |-> IF open_type # "IMCDF_OPEN" /\ compress_type # "IMCDF_COMPRESS_NONE"
                         THEN lib.compress ELSE lib.open])

\* close_status: the status of CDFcloseCDF
imcdf_close(ids, index, status, cdf_handle, close_status) ==
    With(initialise_cdf_ids(ids, index, status), LAMBDA t :
        IF sanity_check_handles(t.cdf_index, cdf_handle) # 0
        THEN [ret |-> -1, cdf_ids |-> t.cdf_ids, cdf_index |-> t.cdf_index,
              status |-> t.status, indexed |-> {}]
        ELSE IF IsError(close_status)
        THEN [ret |-> -1, cdf_ids |-> t.cdf_ids, cdf_index |-> t.cdf_index,
              status |-> close_status, indexed |-> {cdf_handle}]
        ELSE [ret |-> 0, indexed |-> {cdf_handle},
              cdf_ids |-> [count \in DOMAIN t.cdf_ids |->
                              IF count >= cdf_handle /\ count + 1 < t.cdf_index
                              THEN t.cdf_ids[count + 1] ELSE t.cdf_ids[count]],
              cdf_index |-> t.cdf_index - 1, status |-> close_status])

\* imcdf_is_var_exist: cdf_ids [cdf_handle] is read without a call of
\* sanity_check_handles.  var_found: the dataset has the variable.  indexed:
\* the place of cdf_ids that was read.  undefined: the place is outside the
\* array, or holds the id of a dataset that was closed.
imcdf_is_var_exist(ids, index, status, cdf_handle, var_found) ==
    IF cdf_handle \notin DOMAIN ids
    THEN [undefined |-> TRUE, ret |-> -1, status |-> status, indexed |-> {cdf_handle}]
    ELSE IF ids[cdf_handle] = 0
    THEN [undefined |-> FALSE, ret |-> -1, status |-> "BAD_CDF_ID", indexed |-> {cdf_handle}]
    ELSE IF \A count \in 0 .. index - 1 : ids[count] # ids[cdf_handle]
    THEN [undefined |-> TRUE, ret |-> -1, status |-> status, indexed |-> {cdf_handle}]
    ELSE IF var_found
    THEN [undefined |-> FALSE, ret |-> 0, status |-> status, indexed |-> {cdf_handle}]
    ELSE [undefined |-> FALSE, ret |-> -1, status |-> "NO_SUCH_VAR", indexed |-> {cdf_handle}]

\* the texts given to the parsers of the enumerations: the canonical texts
\* in several cases, and texts that are none of them
CodecTexts ==
    {<<"1">>, <<"2">>, <<"3">>, <<"4">>, <<"5">>, <<"0","1">>, <<"o","n","e">>, <<>>,
     <<"F","u","l","l">>, <<"F","U","L","L">>, <<"f","u","l","l">>, <<"f","U","l","L">>, <<"P","a","r","t","i","a","l">>, <<"P","A","R","T","I","A","L">>, <<"N","o","n","e">>, <<"n","o","n","e">>,
     <<"M","a","y","b","e">>, <<"F","u","l">>, <<"F","u","l","l","y">>,
     <<"G","e","o","m","a","g","n","e","t","i","c","F","i","e","l","d","E","l","e","m","e","n","t">>, <<"g","e","o","m","a","g","n","e","t","i","c","f","i","e","l","d","e","l","e","m","e","n","t">>, <<"G","E","O","M","A","G","N","E","T","I","C","F","I","E","L","D","E","L","E","M","E","N","T">>,
     <<"T","e","m","p","e","r","a","t","u","r","e">>, <<"T","E","M","P","E","R","A","T","U","R","E">>, <<"t","e","m","p","e","r","a","t","u","r","E">>, <<"T","e","m","p","e","r","a","t","u","r","e","1">>, <<"E","r","r","o","r">>, <<"P","r","e","s","s","u","r","e">>}

\* the calls of imcdf_open and what the CDF library answers to them
OpenCalls ==
    { [open_type |-> "IMCDF_FORCE_CREATE", compress_type |-> "IMCDF_COMPRESS_GZIP5",
       open |-> CDF_OK, compress |-> CDF_OK],
      [open_type |-> "IMCDF_FORCE_CREATE", compress_type |-> "IMCDF_COMPRESS_GZIP5",
       open |-> CDF_OK, compress |-> "BAD_MALLOC"],
      [open_type |-> "IMCDF_OPEN", compress_type |-> "IMCDF_COMPRESS_NONE",
       open |-> CDF_OK, compress |-> CDF_OK],
      [open_type |-> "IMCDF_OPEN", compress_type |-> "IMCDF_COMPRESS_NONE",
       open |-> "BAD_MALLOC", compress |-> CDF_OK],
      [open_type |-> "(other)", compress_type |-> "IMCDF_COMPRESS_NONE",
       open |-> CDF_OK, compress |-> CDF_OK] }

\* the series asked of imcdf_make_tt2000_array: the dates of the test
\* program, a date before a leap second, a date near the end of the epochs
\* and a date the library cannot hold
SeriesCalls ==
    [date : {<<1980, 1, 1, 0, 0, 0>>, <<2000, 1, 1, 0, 0, 0>>, <<2016, 12, 31, 23, 59, 59>>,
             <<2291, 12, 31, 23, 59, 59>>, <<3000, 1, 1, 0, 0, 0>>},
     increment : {0, 1, 3, 60, -60, INT_MAX, INT_MIN},
     n_samples : -1 .. MaxSamples]

\* the handles given to imcdf_close: the first one, the last one and two
\* that are never open
CloseHandles == {-1, 0, MAX_OPEN_CDF_FILES - 1, MAX_OPEN_CDF_FILES}

(***************************************************************************)
(* The state: one dataset, open under one handle, and the calling program. *)
(***************************************************************************)
VARIABLES
    pc,            \* "closed", "open", "written", "var_written", "ts_written", "read",
                   \* "classified", "aborted", "reading", "left", "named", "stepped",
                   \* "made", "measured", "called", "freed", "crashed", "converted",
                   \* "coded"
    origin,        \* how the dataset was opened: "none", "created", "file"
    cdf,           \* the dataset
    cdf_status,    \* the status of the last call to the CDF library
    arg_attrs,     \* the record as the caller passed it to imcdf_write_global_attrs
    global_attrs,  \* the same record after the call
    write_ret,     \* the return value of imcdf_write_global_attrs
    read_attrs,    \* the structure filled by imcdf_read_global_attrs
    read_ret,      \* the return value of imcdf_read_global_attrs
    var_log,       \* the calls of imcdf_write_variable and imcdf_write_time_stamps
    read_var,      \* the call of imcdf_read_variable and its results
    read_ts,       \* the call of imcdf_read_time_stamps and its results
    query,         \* the arguments given to the classification functions
    is_vector,     \* the result of imcdf_is_vector_gm_data
    is_scalar,     \* the result of imcdf_is_scalar_gm_data
    count,         \* the counter of the loop that reads the temperature variables
    found,         \* the variables that loop has read
    answer,        \* what the function asked with query has returned
    cdf_ids,       \* the array of the CDF ids of the open datasets
    cdf_index,     \* the number of ids in cdf_ids, -1 before the first call
    cdf_opened     \* the number of datasets the CDF library has opened so far

metaVars == <<arg_attrs, global_attrs, write_ret, read_attrs, read_ret>>
varVars == <<var_log, read_var, read_ts>>
classVars == <<query, is_vector, is_scalar>>
loopVars == <<count, found>>
handleVars == <<cdf_ids, cdf_index, cdf_opened>>
otherVars == <<loopVars, answer, handleVars>>
vars == <<pc, origin, cdf, cdf_status, metaVars, varVars, classVars, otherVars>>

NotCalled == <<"(not called)">>

\* in place of a return value: the program was ended during the call
Aborted == <<"(aborted)">>

InitDataset ==
    /\ pc = "closed"
    /\ origin = "none"
    /\ cdf = EmptyCDF
    /\ cdf_status = CDF_OK
    /\ arg_attrs = UNINIT
    /\ global_attrs = UNINIT
    /\ write_ret = NotCalled
    /\ read_attrs = UNINIT
    /\ read_ret = NotCalled
    /\ var_log = <<>>
    /\ read_var = [var_type |-> UNINIT, elem_rec |-> UNINIT, ret |-> NotCalled,
                   variable |-> UninitVariable, overruns |-> {}]
    /\ read_ts = [var_name |-> UNINIT, ret |-> NotCalled,
                  ts |-> [var_name |-> UNINIT, time_stamps |-> UNINIT]]
    /\ is_vector = FALSE
    /\ is_scalar = FALSE
    /\ count = 1
    /\ found = <<>>
    /\ answer = NotCalled
    /\ cdf_ids = [count_0 \in 0 .. MAX_OPEN_CDF_FILES - 1 |-> 0]
    /\ cdf_index = -1
    /\ cdf_opened = 0

Init ==
    /\ InitDataset
    /\ query = [var_type |-> IMCDF_VARTYPE_ERROR, elem_rec |-> <<>>]

\* imcdf_open2 (filename, IMCDF_FORCE_CREATE, ...): a new, empty dataset
Create ==
    /\ pc = "closed"
    /\ pc' = "open"
    /\ origin' = "created"
    /\ cdf' = EmptyCDF
    /\ cdf_status' = CDF_OK
    /\ UNCHANGED <<metaVars, varVars, classVars, otherVars>>

\* imcdf_open2 (filename, IMCDF_OPEN, ...): the dataset of an existing file
OpenFile(file) ==
    /\ pc = "closed"
    /\ pc' = "open"
    /\ origin' = "file"
    /\ cdf' = file
    /\ cdf_status' = CDF_OK
    /\ UNCHANGED <<metaVars, varVars, classVars, otherVars>>

WriteGlobalAttrs(g) ==
    /\ pc = "open"
    /\ origin = "created"
    /\ LET r == imcdf_write_global_attrs(cdf, cdf_status, g)
       IN  /\ cdf' = r.cdf
           /\ cdf_status' = r.status
           /\ global_attrs' = r.global_attrs
           /\ write_ret' = r.ret
    /\ arg_attrs' = g
    /\ pc' = "written"
    /\ UNCHANGED <<origin, read_attrs, read_ret, varVars, classVars, otherVars>>

\* after a write beyond the buffer of format_error_message the caller gets
\* the message or the program is stopped
ReadGlobalAttrs ==
    /\ pc \in {"open", "written"}
    /\ LET r == imcdf_read_global_attrs(cdf, cdf_status)
       IN  /\ cdf_status' = r.status
           /\ read_attrs' = r.global_attrs
           /\ \/ pc' = "read" /\ read_ret' = r.ret
              \/ /\ format_error_message_overruns(r.ret)
                 /\ pc' = "crashed"
                 /\ read_ret' = Aborted
    /\ UNCHANGED <<origin, cdf, arg_attrs, global_attrs, write_ret, varVars, classVars, otherVars>>

\* imcdf_free_global_attrs after a successful imcdf_read_global_attrs; after
\* an undefined free the program goes on or is stopped by the allocator
FreeGlobalAttrs ==
    /\ pc = "read"
    /\ read_ret = NoError
    /\ LET freed == imcdf_free_global_attrs(read_attrs)
       IN  /\ answer' = [call |-> "imcdf_free_global_attrs", freed |-> freed]
           /\ pc' \in IF UndefinedFree(freed, ReadAllocations(read_attrs))
                      THEN {"freed", "crashed"} ELSE {"freed"}
    /\ UNCHANGED <<origin, cdf, cdf_status, metaVars, varVars, classVars, loopVars, handleVars>>

\* imcdf_add_global_attr_string (cdf_handle, name, 0, "x") on a new dataset
\* that has no global attribute
AddGlobalAttr(name) ==
    /\ pc = "open"
    /\ origin = "created"
    /\ cdf = EmptyCDF
    /\ LET r == imcdf_add_global_attr_string(cdf, cdf_status, name, 0, <<"x">>)
       IN  /\ cdf' = r.cdf
           /\ cdf_status' = r.status
    /\ UNCHANGED <<pc, origin, metaVars, varVars, classVars, otherVars>>

\* imcdf_write_variable for one more variable of the dataset
WriteNextVariable(variable, use_given_depend_0) ==
    /\ pc \in {"open", "var_written"}
    /\ origin = "created"
    /\ Len(var_log) < MaxWrites
    /\ LET r == imcdf_write_variable(cdf, cdf_status, variable, use_given_depend_0)
       IN  /\ cdf' = r.cdf
           /\ cdf_status' = r.status
           /\ var_log' = Append(var_log,
                                [call |-> "imcdf_write_variable", variable |-> variable,
                                 use_given_depend_0 |-> use_given_depend_0, ret |-> r.ret])
    /\ pc' = "var_written"
    /\ UNCHANGED <<origin, metaVars, read_var, read_ts, classVars, otherVars>>

WriteVariable(variable, use_given_depend_0) ==
    /\ pc = "open"
    /\ origin = "created"
    /\ LET r == imcdf_write_variable(cdf, cdf_status, variable, use_given_depend_0)
       IN  /\ cdf' = r.cdf
           /\ cdf_status' = r.status
           /\ var_log' = Append(var_log,
                                [call |-> "imcdf_write_variable", variable |-> variable,
                                 use_given_depend_0 |-> use_given_depend_0, ret |-> r.ret])
    /\ pc' = "var_written"
    /\ UNCHANGED <<origin, metaVars, read_var, read_ts, classVars, otherVars>>

WriteTimeStamps(ts) ==
    /\ pc \in {"open", "var_written"}
    /\ origin = "created"
    /\ LET r == imcdf_write_time_stamps(cdf, cdf_status, ts)
       IN  /\ cdf' = r.cdf
           /\ cdf_status' = r.status
           /\ var_log' = Append(var_log,
                                [call |-> "imcdf_write_time_stamps", ts |-> ts, ret |-> r.ret])
    /\ pc' = "ts_written"
    /\ UNCHANGED <<origin, metaVars, read_var, read_ts, classVars, otherVars>>

\* a call that writes beyond a buffer has no defined behaviour: either the
\* bytes next to the buffer are overwritten and the call goes on with the whole
\* name, or the program is ended (the checks of the C library and the compiler)
\* imcdf_write_time_stamps called again, on a dataset that may hold the series
AppendTimeStamps(ts) ==
    /\ pc \in {"open", "ts_written"}
    /\ origin = "created"
    /\ Len(var_log) < MaxWrites
    /\ LET r == imcdf_write_time_stamps(cdf, cdf_status, ts)
       IN  /\ cdf' = r.cdf
           /\ cdf_status' = r.status
           /\ var_log' = Append(var_log,
                                [call |-> "imcdf_write_time_stamps", ts |-> ts, ret |-> r.ret])
    /\ pc' = "ts_written"
    /\ UNCHANGED <<origin, metaVars, read_var, read_ts, classVars, otherVars>>

ReadVariable(var_type, elem_rec) ==
    /\ pc \in {"open", "var_written", "ts_written", "read"}
    /\ read_var.ret = NotCalled
    /\ LET r == imcdf_read_variable(cdf, cdf_status, var_type, elem_rec)
           o == imcdf_read_variable_overruns(var_type, elem_rec)
       IN  \/ /\ cdf_status' = r.status
              /\ read_var' = [var_type |-> var_type, elem_rec |-> elem_rec, ret |-> r.ret,
                              variable |-> r.variable, overruns |-> o]
              /\ pc' = "read"
           \/ /\ o # {}
              /\ cdf_status' = cdf_status
              /\ read_var' = [var_type |-> var_type, elem_rec |-> elem_rec, ret |-> Aborted,
                              variable |-> UninitVariable, overruns |-> o]
              /\ pc' = "aborted"
    /\ UNCHANGED <<origin, cdf, metaVars, var_log, read_ts, classVars, otherVars>>

ReadTimeStamps(var_name) ==
    /\ pc \in {"open", "var_written", "ts_written", "read"}
    /\ read_ts.ret = NotCalled
    /\ LET r == imcdf_read_time_stamps(cdf, cdf_status, var_name)
       IN  /\ cdf_status' = r.status
           /\ read_ts' = [var_name |-> var_name, ret |-> r.ret, ts |-> r.ts]
    /\ pc' = "read"
    /\ UNCHANGED <<origin, cdf, metaVars, var_log, read_var, classVars, otherVars>>

\* main: one turn of the loop that reads the temperature variables "1", "2",
\* ... and leaves at the first call of imcdf_read_variable that returns an error
ReadNextTemperature ==
    /\ pc \in {"open", "reading"}
    /\ LET r == imcdf_read_variable(cdf, cdf_status, IMCDF_VARTYPE_TEMPERATURE, sprintf_d(count))
       IN  /\ cdf_status' = r.status
           /\ IF r.ret # NoError
              THEN /\ pc' = "left"
                   /\ UNCHANGED loopVars
              ELSE /\ pc' = "reading"
                   /\ found' = Append(found, r.variable)
                   /\ count' = count + 1
    /\ UNCHANGED <<origin, cdf, metaVars, varVars, classVars, answer, handleVars>>

\* the two classification functions applied to one (type, code)
Classify ==
    /\ pc = "closed"
    /\ pc' = "classified"
    /\ is_vector' = imcdf_is_vector_gm_data(query.var_type, query.elem_rec)
    /\ is_scalar' = imcdf_is_scalar_gm_data(query.var_type, query.elem_rec)
    /\ UNCHANGED <<origin, cdf, cdf_status, metaVars, varVars, query, otherVars>>

\* the codes of query made into texts and parsed again, and the text of
\* query parsed by the three parsers
ParseAndPrint ==
    /\ pc = "closed"
    /\ pc' = "coded"
    /\ answer' =
         [pub_level |-> imcdf_parse_pub_level_string(
                            imcdf_pub_level_code_tostring(query.pub_level)),
          standard_level |-> imcdf_parse_standard_level_string(
                                 imcdf_standard_level_code_tostring(query.standard_level)),
          var_type |-> imcdf_parse_var_type_string(
                           imcdf_var_type_code_tostring(query.var_type)),
          parsed_pub_level |-> imcdf_parse_pub_level_string(query.string),
          parsed_standard_level |-> imcdf_parse_standard_level_string(query.string),
          parsed_var_type |-> imcdf_parse_var_type_string(query.string)]
    /\ UNCHANGED <<origin, cdf, cdf_status, metaVars, varVars, classVars, loopVars, handleVars>>

\* main: imcdf_make_filename with the arguments of query
MakeFilename ==
    /\ pc = "closed"
    /\ pc' = "named"
    /\ answer' = imcdf_make_filename(query.prefix, query.station_code, EpochOf(query.start),
                                     query.pub_level, query.cadence, query.coverage,
                                     query.force_lower_case)
    /\ UNCHANGED <<origin, cdf, cdf_status, metaVars, varVars, classVars, loopVars, handleVars>>

\* imcdf_tt2000_to_date_time of the epoch of the start date of query
TT2000ToDateTime ==
    /\ pc = "closed"
    /\ pc' = "converted"
    /\ found' = <<imcdf_tt2000_to_date_time(EpochOf(query.start))>>
    /\ cdf_status' = CDF_OK
    /\ UNCHANGED <<origin, cdf, metaVars, varVars, classVars, count, answer, handleVars>>

\* imcdf_tt2000_inc of the epoch the caller holds: the one given at first,
\* then the one the call before returned.  A sum that does not fit a long
\* long is undefined: the call returns what the processor leaves, or the
\* program stops.
TimeInc(inc) ==
    /\ pc \in {"closed", "stepped"}
    /\ Len(found) < MaxIncs
    /\ LET tt2000 == IF found = <<>> THEN query.tt2000 ELSE found[Len(found)].ret
       IN  \/ /\ found' = Append(found, [tt2000 |-> tt2000, inc |-> inc,
                                         ret |-> imcdf_tt2000_inc(tt2000, inc)])
              /\ pc' = "stepped"
           \/ /\ imcdf_tt2000_inc_overflows(tt2000, inc)
              /\ found' = Append(found, [tt2000 |-> tt2000, inc |-> inc, ret |-> Aborted])
              /\ pc' = "aborted"
    /\ UNCHANGED <<origin, cdf, cdf_status, metaVars, varVars, classVars, count, answer, handleVars>>

\* main: imcdf_date_time_to_tt2000 of a publication date, before the series
\* is made; found holds what the call has given
DateTimeToTT2000(date) ==
    /\ pc = "closed"
    /\ LET r == imcdf_date_time_to_tt2000(date[1], date[2], date[3], date[4], date[5], date[6])
       IN  /\ found' = <<r>>
           /\ cdf_status' = r.status
    /\ UNCHANGED <<pc, origin, cdf, metaVars, varVars, classVars, count, answer, handleVars>>

\* main: imcdf_make_tt2000_array.  malloc returns a block or NULL; it has no
\* block of the size a negative n_samples makes.  When an increment of the
\* loop does not fit a long long the program has the array the processor
\* leaves, or stops.
MakeArray ==
    /\ pc = "closed"
    /\ \E malloc_ok \in (IF query.n_samples < 0 THEN {FALSE} ELSE BOOLEAN) :
          LET r == imcdf_make_tt2000_array(cdf_status, query.date, query.increment,
                                           query.n_samples, malloc_ok)
          IN  \/ /\ answer' = [malloc_ok |-> malloc_ok, ret |-> r.ret,
                                tt2000_array |-> r.tt2000_array,
                                long_bits |-> NotCalled, samp_per |-> NotCalled]
                 /\ cdf_status' = r.status
                 /\ pc' = "made"
              \/ /\ imcdf_make_tt2000_array_overflows(r.tt2000_array, query.increment)
                 /\ answer' = [malloc_ok |-> malloc_ok, ret |-> Aborted,
                                tt2000_array |-> <<>>,
                                long_bits |-> NotCalled, samp_per |-> NotCalled]
                 /\ cdf_status' = r.status
                 /\ pc' = "aborted"
    /\ UNCHANGED <<origin, cdf, metaVars, varVars, classVars, loopVars, handleVars>>

\* main: imcdf_calc_samp_per_from_tt2000 of the array made, in a build with a
\* long of long_bits bits.  An array of fewer than two elements is read
\* beyond its end: the value is any, or the program stops.
CalcSampPer(long_bits) ==
    /\ pc = "made"
    /\ answer.ret # NULL
    /\ \/ /\ Len(answer.tt2000_array) >= 2
          /\ answer' = [answer EXCEPT !.long_bits = long_bits,
                             !.samp_per = imcdf_calc_samp_per_from_tt2000(
                                              answer.tt2000_array, long_bits)]
          /\ pc' = "measured"
       \/ /\ Len(answer.tt2000_array) < 2
          /\ answer' = [answer EXCEPT !.long_bits = long_bits, !.samp_per = UNINIT]
          /\ pc' = "measured"
       \/ /\ Len(answer.tt2000_array) < 2
          /\ answer' = [answer EXCEPT !.long_bits = long_bits, !.samp_per = Aborted]
          /\ pc' = "aborted"
    /\ UNCHANGED <<origin, cdf, cdf_status, metaVars, varVars, classVars, loopVars, handleVars>>

\* imcdf_open; the CDF library gives the datasets it opens the ids 1, 2, ...
\* found[h + 1] is the id of the dataset the caller was given handle h for,
\* 0 once the caller has closed h or when h was never given
Held(held, cdf_handle) ==
    IF cdf_handle + 1 \in DOMAIN held THEN held[cdf_handle + 1] ELSE 0

Hold(held, cdf_handle, id) ==
    [i \in 1..(IF cdf_handle + 1 > Len(held) THEN cdf_handle + 1 ELSE Len(held)) |->
        IF i = cdf_handle + 1 THEN id ELSE Held(held, i - 1)]

OpenHandle(call) ==
    /\ pc \in {"closed", "called"}
    /\ LET r == imcdf_open(cdf_ids, cdf_index, cdf_status, call.open_type,
                           call.compress_type,
                           [open |-> call.open, compress |-> call.compress,
                            id |-> cdf_opened + 1])
       IN  /\ r.opened => cdf_opened < MaxOpened
           /\ cdf_ids' = r.cdf_ids
           /\ cdf_index' = r.cdf_index
           /\ cdf_status' = r.status
           /\ cdf_opened' = IF r.opened THEN cdf_opened + 1 ELSE cdf_opened
           /\ answer' = [call |-> "imcdf_open", ret |-> r.ret]
           /\ found' = IF r.ret < 0 THEN found
                       ELSE Hold(found, r.ret, cdf_opened + 1)
    /\ pc' = "called"
    /\ UNCHANGED <<origin, cdf, metaVars, varVars, classVars, count>>

\* imcdf_close; count - 1 is the number of datasets closed
CloseHandle(cdf_handle, close_status) ==
    /\ pc \in {"closed", "called"}
    /\ LET r == imcdf_close(cdf_ids, cdf_index, cdf_status, cdf_handle, close_status)
       IN  /\ r.ret = 0 => count <= MaxClosed
           /\ count' = IF r.ret = 0 THEN count + 1 ELSE count
           /\ cdf_ids' = r.cdf_ids
           /\ cdf_index' = r.cdf_index
           /\ cdf_status' = r.status
           /\ answer' = [call |-> "imcdf_close", cdf_handle |-> cdf_handle, ret |-> r.ret,
                         indexed |-> r.indexed]
           /\ found' = IF r.ret < 0 THEN found
                       ELSE Hold(found, cdf_handle, 0)
    /\ pc' = "called"
    /\ UNCHANGED <<origin, cdf, metaVars, varVars, classVars, cdf_opened>>

\* imcdf_is_var_exist; after an undefined read of cdf_ids the call returns
\* 0 or -1, or the program is stopped
IsVarExist(cdf_handle, var_found) ==
    /\ pc \in {"closed", "called"}
    /\ LET r == imcdf_is_var_exist(cdf_ids, cdf_index, cdf_status, cdf_handle, var_found)
       IN  /\ cdf_status' = r.status
           /\ \E ret \in (IF r.undefined THEN {0, -1} ELSE {r.ret}) :
                  answer' = [call |-> "imcdf_is_var_exist", cdf_handle |-> cdf_handle,
                             ret |-> ret, indexed |-> r.indexed]
           /\ pc' \in (IF r.undefined THEN {"called", "crashed"} ELSE {"called"})
    /\ UNCHANGED <<origin, cdf, metaVars, varVars, classVars, loopVars, handleVars>>

(***************************************************************************)
(* Spec: the global attributes, written to a new dataset or read from a    *)
(* file.                                                                   *)
(***************************************************************************)
Next ==
    \/ Create
    \/ \E file \in Files : OpenFile(file)
    \/ \E g \in CallerRecords : WriteGlobalAttrs(g)
    \/ ReadGlobalAttrs
    \/ FreeGlobalAttrs

Spec == Init /\ [][Next]_vars

(***************************************************************************)
(* SpecVersion: files that differ in the stored format version only.       *)
(***************************************************************************)
NextVersion ==
    \/ \E s \in VersionTexts : OpenFile(VersionFile(s))
    \/ ReadGlobalAttrs

SpecVersion == Init /\ [][NextVersion]_vars

(***************************************************************************)
(* SpecVar: a variable and a series of time stamps written to a new        *)
(* dataset, then read.                                                     *)
(***************************************************************************)
NextVar ==
    \/ Create
    \/ \E variable \in Variables, use_given_depend_0 \in BOOLEAN :
          WriteVariable(variable, use_given_depend_0)
    \/ \E ts \in TimeSeries : WriteTimeStamps(ts)
    \/ \E k \in VariableKinds \cup LongCodes : ReadVariable(k[1], k[2])
    \/ \E var_name \in TimeStampNames : ReadTimeStamps(var_name)

SpecVar == Init /\ [][NextVar]_vars

(***************************************************************************)
(* SpecTitle: files with a long title, read.                               *)
(***************************************************************************)
NextTitle ==
    \/ \E file \in LongTitleFiles : OpenFile(file)
    \/ ReadGlobalAttrs

SpecTitle == Init /\ [][NextTitle]_vars

(***************************************************************************)
(* SpecOrder: variables written one after the other to a new dataset, in   *)
(* which one of the names of the variable attributes may be taken by a     *)
(* global attribute.                                                       *)
(***************************************************************************)
NextOrder ==
    \/ Create
    \/ \E name \in VariableAttrNames : AddGlobalAttr(name)
    \/ \E k \in VariableKinds, use_given_depend_0 \in BOOLEAN :
          WriteNextVariable(TestVariable(k[1], k[2], 1), use_given_depend_0)

SpecOrder == Init /\ [][NextOrder]_vars

(***************************************************************************)
(* SpecAppend: series of time stamps written one after the other to a new  *)
(* dataset, then read.                                                     *)
(***************************************************************************)
NextAppend ==
    \/ Create
    \/ \E ts \in AppendedSeries : AppendTimeStamps(ts)
    \/ \E var_name \in TimeStampNames : ReadTimeStamps(var_name)

SpecAppend == Init /\ [][NextAppend]_vars

(***************************************************************************)
(* SpecDiscover: the temperature variables of a file, read one after the   *)
(* other until one cannot be read.                                         *)
(***************************************************************************)
NextDiscover ==
    \/ \E file \in TemperatureFiles : OpenFile(file)
    \/ ReadNextTemperature

SpecDiscover == Init /\ [][NextDiscover]_vars

(***************************************************************************)
(* SpecFilename: the name of the file of any station, start date,          *)
(* publication level, cadence and coverage.                                *)
(***************************************************************************)
InitFilename ==
    /\ InitDataset
    /\ query \in FilenameCalls

SpecFilename == InitFilename /\ [][MakeFilename]_vars

(***************************************************************************)
(* SpecCodec: any code printed and parsed, any text parsed.                *)
(***************************************************************************)
InitCodec ==
    /\ InitDataset
    /\ query \in [pub_level : PubLevels, standard_level : StandardLevels,
                   var_type : VariableTypes, string : CodecTexts]

SpecCodec == InitCodec /\ [][ParseAndPrint]_vars

(***************************************************************************)
(* SpecDateTime: the date and the time of any start date, and the name of  *)
(* the file made from it.                                                  *)
(***************************************************************************)
NextDateTime ==
    \/ TT2000ToDateTime
    \/ MakeFilename

SpecDateTime == InitFilename /\ [][NextDateTime]_vars

(***************************************************************************)
(* SpecInc: a caller that increments an epoch MaxIncs times, by any of the *)
(* numbers of seconds.                                                     *)
(***************************************************************************)
InitInc ==
    /\ InitDataset
    /\ query \in [tt2000 : IncEpochs]

SpecInc == InitInc /\ [][\E inc \in Incs : TimeInc(inc)]_vars

(***************************************************************************)
(* SpecSeries: a series of time stamps is made and its sample period is    *)
(* calculated.                                                             *)
(***************************************************************************)
InitSeries ==
    /\ InitDataset
    /\ query \in SeriesCalls

NextSeries ==
    \/ \E date \in {<<2000, 1, 1, 0, 0, 0>>, <<3000, 1, 1, 0, 0, 0>>} : DateTimeToTT2000(date)
    \/ MakeArray
    \/ \E long_bits \in LongWidths : CalcSampPer(long_bits)

SpecSeries == InitSeries /\ [][NextSeries]_vars

(***************************************************************************)
(* SpecHandles: any sequence of imcdf_open and imcdf_close, with any       *)
(* handle and any answer of the CDF library.                               *)
(***************************************************************************)
NextHandles ==
    \/ \E call \in OpenCalls : OpenHandle(call)
    \/ \E cdf_handle \in CloseHandles, close_status \in {CDF_OK, "BAD_MALLOC"} :
          CloseHandle(cdf_handle, close_status)

SpecHandles == Init /\ [][NextHandles]_vars

(***************************************************************************)
(* SpecExist: datasets opened and closed without a fault of the CDF        *)
(* library, and imcdf_is_var_exist called with any handle.                 *)
(***************************************************************************)
NextExist ==
    \/ OpenHandle([open_type |-> "IMCDF_OPEN", compress_type |-> "IMCDF_COMPRESS_NONE",
                   open |-> CDF_OK, compress |-> CDF_OK])
    \/ \E cdf_handle \in CloseHandles : CloseHandle(cdf_handle, CDF_OK)
    \/ \E cdf_handle \in CloseHandles, var_found \in BOOLEAN :
          IsVarExist(cdf_handle, var_found)

SpecExist == Init /\ [][NextExist]_vars

(***************************************************************************)
(* SpecClassify: the classification of any variable type and element code. *)
(***************************************************************************)
InitClassify ==
    /\ InitDataset
    /\ query \in [var_type : VariableTypes, elem_rec : ElementCodes]

SpecClassify == InitClassify /\ [][Classify]_vars

(***************************************************************************)
(* The global attributes: the properties of writing and reading them.      *)
(***************************************************************************)
RequiredStrings == {"iaga_code", "elements_recorded", "observatory_name", "institution", "source"}
RequiredFields ==
    {"format_description", "format_version", "title", "iaga_code", "elements_recorded",
     "pub_level", "pub_date", "observatory_name", "latitude", "longitude", "elevation",
     "institution", "standard_level", "source"}
OptionalFields ==
    {"vector_sens_orient", "standard_name", "standard_version", "partial_stand_desc",
     "terms_of_use", "unique_identifier"}

Blank(s) == s = NULL \/ s = <<>>

\* a valid Metadata record
ValidRecord(g) ==
    /\ \A f \in RequiredStrings : g[f] # NULL
    /\ Blank(g.title) \/ g.title = <<"G","e","o","m","a","g","n","e","t","i","c"," ","t","i","m","e"," ","s","e","r","i","e","s"," ","d","a","t","a">>
    /\ Blank(g.format_description) \/ g.format_description = <<"I","N","T","E","R","M","A","G","N","E","T"," ","C","D","F"," ","F","o","r","m","a","t">>
    /\ Blank(g.format_version) \/ g.format_version \in {<<"1",".","1">>, <<"1",".","2">>, <<"1",".","3">>}

\* imcdf_write_global_attrs was called on the new dataset with a valid record
WroteValidRecord == origin = "created" /\ write_ret # NotCalled /\ ValidRecord(arg_attrs)

\* C1: a valid Metadata record written to a new dataset with
\* imcdf_write_global_attrs and read with imcdf_read_global_attrs: both calls
\* succeed, every required field read equals the field written, and every
\* optional field read equals the field written or both are null.
C1_RoundTrip ==
    (pc = "read" /\ WroteValidRecord) =>
        /\ write_ret = NoError
        /\ read_ret = NoError
        /\ \A f \in RequiredFields \cup OptionalFields : read_attrs[f] = global_attrs[f]

\* the texts are the entries 0 .. n-1 of the global attribute, and there is no entry n
StoredAsEntries(name, texts) ==
    /\ \A i \in 1 .. Len(texts) :
          /\ name \in DOMAIN cdf.gattrs
          /\ (i - 1) \in DOMAIN cdf.gattrs[name]
          /\ cdf.gattrs[name][i - 1] = [type |-> "CDF_CHAR", val |-> texts[i]]
    /\ name \in DOMAIN cdf.gattrs => Len(texts) \notin DOMAIN cdf.gattrs[name]

\* C5: a record with n parent identifiers and m reference links (n, m >= 0, two
\* or more included): imcdf_write_global_attrs succeeds and stores them as the
\* entries 0..n-1 of ParentIdentifiers and 0..m-1 of ReferenceLinks, and a
\* following imcdf_read_global_attrs returns these n and m texts in order.
C5_RepeatedEntries ==
    (pc \in {"written", "read"} /\ WroteValidRecord) =>
        /\ write_ret = NoError
        /\ StoredAsEntries(<<"P","a","r","e","n","t","I","d","e","n","t","i","f","i","e","r","s">>, arg_attrs.parent_identifiers)
        /\ StoredAsEntries(<<"R","e","f","e","r","e","n","c","e","L","i","n","k","s">>, arg_attrs.reference_links)
        /\ pc = "read" =>
              /\ read_ret = NoError
              /\ read_attrs.parent_identifiers = arg_attrs.parent_identifiers
              /\ read_attrs.reference_links = arg_attrs.reference_links

\* two parent identifiers given to imcdf_write_global_attrs on a new dataset
C5_Witness ==
    /\ pc = "written"
    /\ WroteValidRecord
    /\ Len(arg_attrs.parent_identifiers) = 2
    /\ write_ret = <<"E","r","r","o","r"," ","w","r","i","t","i","n","g"," ","g","l","o","b","a","l"," ","a","t","t","r","i","b","u","t","e",":"," ","P","a","r","e","n","t","I","d","e","n","t","i","f","i","e","r","s"," ","[","C","D","F"," ","e","r","r","o","r",":"," ","]","E","r","r","o","r",":"," ">>
                   \o <<"ATTR_EXISTS">> \o <<"\n">>

\* entry 0 of the attribute exists and has the type the reader asks for
Readable(name) ==
    /\ name \in DOMAIN cdf.gattrs
    /\ 0 \in DOMAIN cdf.gattrs[name]
    /\ cdf.gattrs[name][0].type = ExpectedType(name)

\* the required and the optional attributes, in the order they are read
RequiredAttrs ==
    << <<"F","o","r","m","a","t","D","e","s","c","r","i","p","t","i","o","n">>, <<"F","o","r","m","a","t","V","e","r","s","i","o","n">>, <<"T","i","t","l","e">>, <<"I","a","g","a","C","o","d","e">>, <<"E","l","e","m","e","n","t","s","R","e","c","o","r","d","e","d">>,
       <<"P","u","b","l","i","c","a","t","i","o","n","L","e","v","e","l">>, <<"P","u","b","l","i","c","a","t","i","o","n","D","a","t","e">>, <<"O","b","s","e","r","v","a","t","o","r","y","N","a","m","e">>, <<"L","a","t","i","t","u","d","e">>,
       <<"L","o","n","g","i","t","u","d","e">>, <<"E","l","e","v","a","t","i","o","n">>, <<"I","n","s","t","i","t","u","t","i","o","n">>, <<"S","t","a","n","d","a","r","d","L","e","v","e","l">>, <<"S","o","u","r","c","e">> >>
OptionalAttrs ==
    [vector_sens_orient |-> <<"V","e","c","t","o","r","S","e","n","s","O","r","i","e","n","t">>, standard_name |-> <<"S","t","a","n","d","a","r","d","N","a","m","e">>,
     standard_version |-> <<"S","t","a","n","d","a","r","d","V","e","r","s","i","o","n">>, partial_stand_desc |-> <<"P","a","r","t","i","a","l","S","t","a","n","d","D","e","s","c">>,
     terms_of_use |-> <<"T","e","r","m","s","O","f","U","s","e">>, unique_identifier |-> <<"U","n","i","q","u","e","I","d","e","n","t","i","f","i","e","r">>]

AllRequiredReadable == \A i \in DOMAIN RequiredAttrs : Readable(RequiredAttrs[i])

StoredText(name) == cdf.gattrs[name][0].val
Upper(s) == [i \in DOMAIN s |-> toupper(s[i])]
SameIgnoringCase(a, b) == Upper(a) = Upper(b)
TitleCorrect == SameIgnoringCase(StoredText(<<"T","i","t","l","e">>), <<"G","e","o","m","a","g","n","e","t","i","c"," ","t","i","m","e"," ","s","e","r","i","e","s"," ","d","a","t","a">>)
DescriptionCorrect ==
    SameIgnoringCase(StoredText(<<"F","o","r","m","a","t","D","e","s","c","r","i","p","t","i","o","n">>), <<"I","N","T","E","R","M","A","G","N","E","T"," ","C","D","F"," ","F","o","r","m","a","t">>)

\* the message holds the text that introduces the status of the CDF library
HasStatusText(msg) ==
    \E i \in 1 .. (Len(msg) - 13) : SubSeq(msg, i, i + 13) = <<" ","[","C","D","F"," ","e","r","r","o","r",":"," ","]">>

\* C4: when every attribute has been read, imcdf_read_global_attrs succeeds
\* only if the stored Title and FormatDescription equal the canonical texts,
\* compared without regard to case; a violation is reported by a message made
\* of the label and the stored text alone, with no status text of the CDF
\* library, whatever status the probing of the repeated attributes has left.
C4_Validation ==
    (pc = "read" /\ read_ret # NotCalled /\ AllRequiredReadable) =>
        /\ read_ret = NoError => TitleCorrect /\ DescriptionCorrect
        /\ ~TitleCorrect => read_ret = <<"T","i","t","l","e"," ","o","f"," ","d","a","t","a"," ","i","n","c","o","r","r","e","c","t",":"," ">> \o StoredText(<<"T","i","t","l","e">>)
        /\ (TitleCorrect /\ ~DescriptionCorrect) =>
              read_ret = <<"D","e","s","c","r","i","p","t","i","o","n"," ","o","f"," ","d","a","t","a"," ","i","n","c","o","r","r","e","c","t",":"," ">> \o StoredText(<<"F","o","r","m","a","t","D","e","s","c","r","i","p","t","i","o","n">>)
        /\ ~HasStatusText(read_ret)

\* a stored title that is not the canonical one, read while the last status
\* of the CDF library is an error
C4_Witness ==
    /\ pc = "read"
    /\ AllRequiredReadable
    /\ ~TitleCorrect
    /\ IsError(cdf_status)
    /\ read_ret = <<"T","i","t","l","e"," ","o","f"," ","d","a","t","a"," ","i","n","c","o","r","r","e","c","t",":"," ","O","t","h","e","r"," ","t","i","t","l","e">>

\* C6: the absence of a required attribute makes imcdf_read_global_attrs fail
\* with the error that names the attribute (the first one the read cannot
\* get); the absence of an optional attribute never fails the read and leaves
\* its field null.
C6_AbsentAttributes ==
    (pc = "read" /\ read_ret # NotCalled) =>
        /\ \A i \in DOMAIN RequiredAttrs :
              (/\ RequiredAttrs[i] \notin DOMAIN cdf.gattrs
               /\ \A j \in 1 .. (i - 1) : Readable(RequiredAttrs[j]))
              => read_ret = <<"E","r","r","o","r"," ","r","e","a","d","i","n","g"," ","g","l","o","b","a","l"," ","a","t","t","r","i","b","u","t","e",":"," ">> \o RequiredAttrs[i]
                            \o <<" ","[","C","D","F"," ","e","r","r","o","r",":"," ","]","E","r","r","o","r",":"," ">> \o <<"NO_SUCH_ATTR">> \o <<"\n">>
        /\ (\E i \in DOMAIN RequiredAttrs : RequiredAttrs[i] \notin DOMAIN cdf.gattrs)
              => read_ret # NoError
        /\ \A f \in DOMAIN OptionalAttrs :
              (OptionalAttrs[f] \notin DOMAIN cdf.gattrs /\ AllRequiredReadable)
              => /\ read_attrs[f] = NULL
                 /\ ~HasStatusText(read_ret)
                 /\ (TitleCorrect /\ DescriptionCorrect
                     /\ StoredText(<<"F","o","r","m","a","t","V","e","r","s","i","o","n">>) \in {<<"1",".","1">>, <<"1",".","2">>, <<"1",".","3">>})
                       => read_ret = NoError

\* a file without its Title, and the error of the read
C6_Witness ==
    /\ pc = "read"
    /\ origin = "file"
    /\ <<"T","i","t","l","e">> \notin DOMAIN cdf.gattrs
    /\ read_ret = <<"E","r","r","o","r"," ","r","e","a","d","i","n","g"," ","g","l","o","b","a","l"," ","a","t","t","r","i","b","u","t","e",":"," ","T","i","t","l","e"," ","[","C","D","F"," ","e","r","r","o","r",":"," ","]","E","r","r","o","r",":"," ">>
                  \o <<"NO_SUCH_ATTR">> \o <<"\n">>

\* a stored value of the wrong type, or a level that is not a canonical encoding
WronglyStored ==
    \/ \E name \in DOMAIN cdf.gattrs : \E i \in DOMAIN cdf.gattrs[name] :
          cdf.gattrs[name][i].type # ExpectedType(name)
    \/ /\ Readable(<<"P","u","b","l","i","c","a","t","i","o","n","L","e","v","e","l">>)
       /\ StoredText(<<"P","u","b","l","i","c","a","t","i","o","n","L","e","v","e","l">>) \notin {<<"1">>, <<"2">>, <<"3">>, <<"4">>}
    \/ /\ Readable(<<"S","t","a","n","d","a","r","d","L","e","v","e","l">>)
       /\ Upper(StoredText(<<"S","t","a","n","d","a","r","d","L","e","v","e","l">>)) \notin {<<"F","U","L","L">>, <<"P","A","R","T","I","A","L">>, <<"N","O","N","E">>}

\* C7: whenever an attribute is stored with the wrong type (an optional
\* attribute and an entry of ParentIdentifiers or ReferenceLinks included) or
\* the stored PublicationLevel or StandardLevel is not a canonical encoding,
\* imcdf_read_global_attrs returns an error.
C7_NeverSilent ==
    (pc = "read" /\ read_ret # NotCalled /\ WronglyStored) => read_ret # NoError

\* C8: imcdf_write_global_attrs replaces a blank title, format description,
\* format version and terms of use by their defaults, in the caller's record
\* and in the attributes written; a value that is not blank is written as it is.
C8_Defaults ==
    (pc \in {"written", "read"} /\ origin = "created" /\ write_ret # NotCalled) =>
        LET Expected(f, default) == IF Blank(arg_attrs[f]) THEN default ELSE arg_attrs[f]
            Written(f, name, default) ==
                /\ global_attrs[f] = Expected(f, default)
                /\ name \in DOMAIN cdf.gattrs
                /\ DOMAIN cdf.gattrs[name] = {0}
                /\ cdf.gattrs[name][0] = [type |-> "CDF_CHAR", val |-> Expected(f, default)]
        IN  /\ Written("title", <<"T","i","t","l","e">>, <<"G","e","o","m","a","g","n","e","t","i","c"," ","t","i","m","e"," ","s","e","r","i","e","s"," ","d","a","t","a">>)
            /\ Written("format_description", <<"F","o","r","m","a","t","D","e","s","c","r","i","p","t","i","o","n">>, <<"I","N","T","E","R","M","A","G","N","E","T"," ","C","D","F"," ","F","o","r","m","a","t">>)
            /\ Written("format_version", <<"F","o","r","m","a","t","V","e","r","s","i","o","n">>, <<"1",".","3">>)
            /\ Written("terms_of_use", <<"T","e","r","m","s","O","f","U","s","e">>, getINTERMAGNETTermsOfUse)
            /\ \A f \in GlobalAttrFields \ {"title", "format_description", "format_version",
                                           "terms_of_use"} : global_attrs[f] = arg_attrs[f]

\* an empty format version and a title of the caller's own, written
C8_Witness ==
    /\ pc = "written"
    /\ arg_attrs.format_version = <<>>
    /\ arg_attrs.title = <<"O","t","h","e","r"," ","t","i","t","l","e">>
    /\ global_attrs.format_version = <<"1",".","3">>
    /\ cdf.gattrs[<<"F","o","r","m","a","t","V","e","r","s","i","o","n">>][0].val = <<"1",".","3">>
    /\ cdf.gattrs[<<"T","i","t","l","e">>][0].val = <<"O","t","h","e","r"," ","t","i","t","l","e">>

(***************************************************************************)
(* The version gate.                                                       *)
(***************************************************************************)
\* the number strtod reads at the start of the text, as tenths rounded half
\* up, lies in 11 .. 13: the number v satisfies 1.05 <= v < 1.35
TenthsInRange(s) ==
    LET v == strtod(s)
    IN  21 * v.den <= 20 * v.num /\ 20 * v.num < 27 * v.den

VectorCodes == {"X", "Y", "Z", "H", "D", "E", "V", "I", "F"}
ScalarCodes == {"S", "G"}
IsGeomagnetic(var_type) == var_type = "IMCDF_VARTYPE_GEOMAGNETIC_FIELD_ELEMENT"
FirstUpperIn(code, letters) == code # <<>> /\ Upper(code)[1] \in letters

\* C9 as it is stated: imcdf_is_vector_gm_data returns true if and only if the
\* type is GeomagneticFieldElement and the code is one of X, Y, Z, H, D, E, V,
\* I, F; imcdf_is_scalar_gm_data returns true if and only if the type is
\* GeomagneticFieldElement and the code is S or G; for any other type both
\* return false, and no (type, code) makes both return true.
C9_ExactCodes ==
    pc = "classified" =>
        /\ is_vector <=> (IsGeomagnetic(query.var_type)
                          /\ query.elem_rec \in {<<c>> : c \in VectorCodes})
        /\ is_scalar <=> (IsGeomagnetic(query.var_type)
                          /\ query.elem_rec \in {<<c>> : c \in ScalarCodes})
        /\ ~IsGeomagnetic(query.var_type) => (~is_vector /\ ~is_scalar)
        /\ ~(is_vector /\ is_scalar)

\* C9, amended: imcdf_is_vector_gm_data returns true if and only if the type is
\* GeomagneticFieldElement and the first character of the code, in upper case,
\* is one of X, Y, Z, H, D, E, V, I, F; imcdf_is_scalar_gm_data returns true if
\* and only if the type is GeomagneticFieldElement and the first character of
\* the code, in upper case, is S or G; for any other type both return false,
\* and no (type, code) makes both return true.
C9_FirstCharacter ==
    pc = "classified" =>
        /\ is_vector <=> (IsGeomagnetic(query.var_type)
                          /\ FirstUpperIn(query.elem_rec, VectorCodes))
        /\ is_scalar <=> (IsGeomagnetic(query.var_type)
                          /\ FirstUpperIn(query.elem_rec, ScalarCodes))
        /\ ~IsGeomagnetic(query.var_type) => (~is_vector /\ ~is_scalar)
        /\ ~(is_vector /\ is_scalar)

\* the geomagnetic code "h", classified as a vector element
C9_Witness ==
    /\ pc = "classified"
    /\ IsGeomagnetic(query.var_type)
    /\ query.elem_rec = <<"h">>
    /\ is_vector
    /\ ~is_scalar

(***************************************************************************)
(* Variables and time stamps: the properties of writing and reading them.  *)
(***************************************************************************)
\* the name of the array that holds the data of a variable
ArrayName(var_type, elem_rec) ==
    CASE var_type = "IMCDF_VARTYPE_GEOMAGNETIC_FIELD_ELEMENT" -> <<"G","e","o","m","a","g","n","e","t","i","c","F","i","e","l","d">> \o elem_rec
      [] var_type = "IMCDF_VARTYPE_TEMPERATURE" -> <<"T","e","m","p","e","r","a","t","u","r","e">> \o elem_rec
      [] OTHER -> NULL

\* the name of the array a call of var_log writes to
WrittenName(e) ==
    IF e.call = "imcdf_write_variable"
    THEN ArrayName(e.variable.var_type, e.variable.elem_rec)
    ELSE e.ts.var_name

\* the calls that wrote to the array
WritesTo(name) == {i \in DOMAIN var_log : WrittenName(var_log[i]) = name}

\* the array was written by one call, and that call succeeded
WrittenOnceBy(name, i) == WritesTo(name) = {i} /\ var_log[i].ret = NoError

\* C2: a variable (GeomagneticFieldElement or Temperature) and a series of
\* time stamps, each written once to a new dataset by a call that succeeds:
\* imcdf_read_variable with the type and code of the variable succeeds and
\* returns the samples written, in order and in number, and the FIELDNAM,
\* UNITS, FILLVAL, VALIDMIN and VALIDMAX written; imcdf_read_time_stamps with
\* the name of the series succeeds and returns the time stamps written.
C2_RoundTrip ==
    /\ \A i \in DOMAIN var_log :
          (/\ read_var.ret # NotCalled
           /\ var_log[i].call = "imcdf_write_variable"
           /\ var_log[i].variable.var_type = read_var.var_type
           /\ var_log[i].variable.elem_rec = read_var.elem_rec
           /\ WrittenOnceBy(ArrayName(read_var.var_type, read_var.elem_rec), i))
          => /\ read_var.ret = NoError
             /\ \A f \in {"data", "field_nam", "units", "fill_val", "valid_min", "valid_max"} :
                   read_var.variable[f] = var_log[i].variable[f]
    /\ \A i \in DOMAIN var_log :
          (/\ read_ts.ret # NotCalled
           /\ var_log[i].call = "imcdf_write_time_stamps"
           /\ WrittenOnceBy(read_ts.var_name, i))
          => /\ read_ts.ret = NoError
             /\ read_ts.ts.time_stamps = var_log[i].ts.time_stamps

\* a variable of two samples and a series of two time stamps, written and read
C2_Witness ==
    /\ Len(var_log) = 2
    /\ WrittenOnceBy(<<"G","e","o","m","a","g","n","e","t","i","c","F","i","e","l","d","H">>, 1)
    /\ WrittenOnceBy(<<"G","e","o","m","a","g","n","e","t","i","c","V","e","c","t","o","r","T","i","m","e","s">>, 2)
    /\ read_var.ret = NoError
    /\ read_var.elem_rec = <<"H">>
    /\ read_var.variable.data = <<2, 4>>
    /\ read_ts.ret = NoError
    /\ read_ts.ts.time_stamps = <<60, 120>>

\* the entry of the variable in the attribute DEPEND_0
StoredDepend0(name) == cdf.vattrs[<<"D","E","P","E","N","D","_","0">>][name]

RecordsOf(dataset, name) ==
    IF name \in DOMAIN dataset.zvars THEN dataset.zvars[name].recs ELSE <<>>

\* the call this step adds to var_log
NewCall == var_log'[Len(var_log')]

\* this step is a call of imcdf_write_variable that does not use the depend_0
\* given, for a geomagnetic variable whose code is neither vector nor scalar
InvalidElementWrite ==
    /\ Len(var_log') = Len(var_log) + 1
    /\ NewCall.call = "imcdf_write_variable"
    /\ ~NewCall.use_given_depend_0
    /\ IsGeomagnetic(NewCall.variable.var_type)
    /\ ~FirstUpperIn(NewCall.variable.elem_rec, VectorCodes \cup ScalarCodes)

\* C11: imcdf_write_variable called with use_given_depend_0 false for a
\* GeomagneticFieldElement variable whose code is neither a vector nor a
\* scalar element returns "Missing or invalid element code"; the samples
\* have then been appended to the array of the variable, which stays in the
\* dataset, and no attribute of the dataset has been written.
C11_InvalidElement ==
    [][InvalidElementWrite =>
         LET v == NewCall.variable
             name == ArrayName(v.var_type, v.elem_rec)
         IN  /\ NewCall.ret = <<"M","i","s","s","i","n","g"," ","o","r"," ","i","n","v","a","l","i","d"," ","e","l","e","m","e","n","t"," ","c","o","d","e">>
             /\ name \in DOMAIN cdf'.zvars
             /\ cdf'.zvars[name].recs = RecordsOf(cdf, name) \o v.data
             /\ DOMAIN cdf'.zvars = DOMAIN cdf.zvars \cup {name}
             /\ \A other \in DOMAIN cdf.zvars \ {name} : cdf'.zvars[other] = cdf.zvars[other]
             /\ cdf'.vattrs = cdf.vattrs
             /\ cdf'.gattrs = cdf.gattrs]_vars

\* the variable "Q" written with two samples: the error is returned, the
\* samples are in the dataset and the dataset has no attribute
C11_Witness ==
    /\ pc = "var_written"
    /\ Len(var_log) = 1
    /\ var_log[1].variable.elem_rec = <<"Q">>
    /\ ~var_log[1].use_given_depend_0
    /\ var_log[1].ret = <<"M","i","s","s","i","n","g"," ","o","r"," ","i","n","v","a","l","i","d"," ","e","l","e","m","e","n","t"," ","c","o","d","e">>
    /\ RecordsOf(cdf, <<"G","e","o","m","a","g","n","e","t","i","c","F","i","e","l","d","Q">>) = <<2, 4>>
    /\ cdf.vattrs = NoEntries

\* the text is the error of an invalid variable type or name
IsInvalidTypeError(ret) ==
    ret \in {<<"I","n","v","a","l","i","d"," ","v","a","r","i","a","b","l","e"," ","t","y","p","e">>, <<"E","r","r","o","r",":"," ","I","n","v","a","l","i","d"," ","v","a","r","i","a","b","l","e"," ","t","y","p","e">>}

\* C12: the array of a variable is named "GeomagneticField" + code or
\* "Temperature" + code; a code for which this name has more than 29
\* characters is rejected with the invalid type/name error, and nothing is
\* written to the dataset or beyond the name buffers.
C12_NameCeiling ==
    /\ \A i \in DOMAIN var_log :
          (var_log[i].call = "imcdf_write_variable" /\ var_log[i].ret = NoError)
          => ArrayName(var_log[i].variable.var_type, var_log[i].variable.elem_rec)
                \in DOMAIN cdf.zvars
    /\ (/\ read_var.elem_rec # UNINIT
        /\ ArrayName(read_var.var_type, read_var.elem_rec) # NULL
        /\ Len(ArrayName(read_var.var_type, read_var.elem_rec)) > 29)
       => /\ IsInvalidTypeError(read_var.ret)
          /\ read_var.overruns = {}

\* imcdf_read_variable given a code of 14 characters goes on with a name of
\* 30 characters, written beyond the end of var_name and of elem_rec, and
\* reports that an attribute of the variable cannot be read
C12_Witness ==
    /\ read_var.var_type = "IMCDF_VARTYPE_GEOMAGNETIC_FIELD_ELEMENT"
    /\ read_var.elem_rec = <<"H","H","H","H","H","H","H","H","H","H","H","H","H","H">>
    /\ read_var.overruns = {"var_name", "variable->elem_rec"}
    /\ read_var.ret = <<"E","r","r","o","r"," ","r","e","a","d","i","n","g"," ","v","a","r","i","a","b","l","e"," ","a","t","t","r","i","b","u","t","e",":"," ","F","I","E","L","D","N","A","M">>

\* a variable type other than GeomagneticFieldElement and Temperature
IsOtherType(var_type) ==
    var_type \notin {"IMCDF_VARTYPE_GEOMAGNETIC_FIELD_ELEMENT", "IMCDF_VARTYPE_TEMPERATURE"}

\* C13: imcdf_write_variable and imcdf_read_variable called with a variable
\* type other than GeomagneticFieldElement and Temperature return the
\* "Invalid variable type" error and leave the dataset, and the status of the
\* last operation on it, as they were.
C13_InvalidType ==
    [][/\ (/\ Len(var_log') = Len(var_log) + 1
           /\ NewCall.call = "imcdf_write_variable"
           /\ IsOtherType(NewCall.variable.var_type))
          => /\ NewCall.ret = <<"I","n","v","a","l","i","d"," ","v","a","r","i","a","b","l","e"," ","t","y","p","e">>
             /\ cdf' = cdf
             /\ cdf_status' = cdf_status
       /\ (/\ read_var' # read_var
           /\ IsOtherType(read_var'.var_type))
          => /\ read_var'.ret = <<"E","r","r","o","r",":"," ","I","n","v","a","l","i","d"," ","v","a","r","i","a","b","l","e"," ","t","y","p","e">>
             /\ read_var'.variable = UninitVariable
             /\ read_var'.overruns = {}
             /\ cdf' = cdf
             /\ cdf_status' = cdf_status]_vars

\* a variable of type IMCDF_VARTYPE_ERROR written to a new dataset and then
\* asked for: both calls return the error and the dataset is still empty
C13_Witness ==
    /\ Len(var_log) = 1
    /\ var_log[1].call = "imcdf_write_variable"
    /\ var_log[1].variable.var_type = "IMCDF_VARTYPE_ERROR"
    /\ var_log[1].variable.data = <<2, 4>>
    /\ var_log[1].ret = <<"I","n","v","a","l","i","d"," ","v","a","r","i","a","b","l","e"," ","t","y","p","e">>
    /\ read_var.var_type = "IMCDF_VARTYPE_ERROR"
    /\ read_var.ret = <<"E","r","r","o","r",":"," ","I","n","v","a","l","i","d"," ","v","a","r","i","a","b","l","e"," ","t","y","p","e">>
    /\ cdf = EmptyCDF

\* the dataset holds the temperature variable of channel c
HasChannel(c) == (<<"T","e","m","p","e","r","a","t","u","r","e">> \o <<<<"0","1","2","3","4","5","6","7","8","9">>[c + 1]>>) \in DOMAIN cdf.zvars

\* the channels 1 .. k are in the dataset and the channel k + 1 is not
ChannelsUpTo(k) == (\A c \in 1 .. k : HasChannel(c)) /\ ~HasChannel(k + 1)

\* C14: on a dataset that holds the Temperature channels "1" .. "k" and not
\* the channel "k+1", the loop that calls imcdf_read_variable for "1", "2",
\* ... and leaves at the first error makes k + 1 calls and yields the k
\* variables, in the order of the channels.
C14_Discovery ==
    \A k \in 0 .. MaxChannels :
        (pc = "left" /\ ChannelsUpTo(k))
        => /\ count = k + 1
           /\ Len(found) = k
           /\ \A c \in 1 .. k :
                 /\ found[c].var_type = "IMCDF_VARTYPE_TEMPERATURE"
                 /\ found[c].elem_rec = <<<<"0","1","2","3","4","5","6","7","8","9">>[c + 1]>>
                 /\ found[c].field_nam = <<"T","e","m","p","e","r","a","t","u","r","e"," ">> \o <<<<"0","1","2","3","4","5","6","7","8","9">>[c + 1]>>
                 /\ found[c].data = cdf.zvars[<<"T","e","m","p","e","r","a","t","u","r","e">> \o found[c].elem_rec].recs

\* the channels "1" and "2" are in the dataset (and "4" is): the loop leaves
\* on "3" with two variables
C14_Witness ==
    /\ pc = "left"
    /\ ChannelsUpTo(2)
    /\ HasChannel(4)
    /\ count = 3
    /\ Len(found) = 2
    /\ found[1].elem_rec = <<"1">>
    /\ found[2].elem_rec = <<"2">>
    /\ found[2].data = <<2, 4>>

\* this step is a call of imcdf_read_variable for a variable, of a valid type
\* and with a code that fits, that is not in the dataset
ReadOfMissingVariable ==
    /\ read_var' # read_var
    /\ ~IsOtherType(read_var'.var_type)
    /\ read_var'.overruns = {}
    /\ ArrayName(read_var'.var_type, read_var'.elem_rec) \notin DOMAIN cdf.zvars

\* C15: when the variable derived from (type, code) is not in the dataset,
\* imcdf_read_variable fails, the last status (imcdf_get_last_status_code) is
\* then the no-such-variable status of the CDF library, not the status left
\* by the operation before the call, and the error text holds that status.
C15_NotFound ==
    [][ReadOfMissingVariable =>
         /\ read_var'.ret # NoError
         /\ cdf_status' = "NO_SUCH_VAR"
         /\ \E i \in DOMAIN read_var'.ret : read_var'.ret[i] = "NO_SUCH_VAR"]_vars

\* the variable "H" asked of a new, empty dataset: the call fails, the last
\* status is still CDF_OK and the text names no status
C15_Witness ==
    /\ pc = "read"
    /\ var_log = <<>>
    /\ read_ts.ret = NotCalled
    /\ read_var.elem_rec = <<"H">>
    /\ read_var.ret = <<"E","r","r","o","r"," ","r","e","a","d","i","n","g"," ","v","a","r","i","a","b","l","e"," ","a","t","t","r","i","b","u","t","e",":"," ","F","I","E","L","D","N","A","M">>
    /\ cdf_status = CDF_OK

\* the time stamps given by the first n calls of var_log that wrote to the
\* array, one after the other
RECURSIVE WrittenTo(_, _)
WrittenTo(name, n) ==
    IF n = 0 THEN <<>>
    ELSE IF n \in WritesTo(name) THEN WrittenTo(name, n - 1) \o var_log[n].ts.time_stamps
    ELSE WrittenTo(name, n - 1)

\* C16: imcdf_write_time_stamps creates the array of the series when it is
\* absent and succeeds when it exists; the time stamps are stored after the
\* last record written before, so that after any sequence of writes to one
\* name the array holds, and imcdf_read_time_stamps returns, the time stamps
\* of all the writes one after the other, in the order of the writes.
C16_Append ==
    /\ \A i \in DOMAIN var_log :
          var_log[i].call = "imcdf_write_time_stamps" => var_log[i].ret = NoError
    /\ \A name \in TimeStampNames :
          (/\ WritesTo(name) # {}
           /\ \A i \in WritesTo(name) : var_log[i].call = "imcdf_write_time_stamps")
          => /\ name \in DOMAIN cdf.zvars
             /\ cdf.zvars[name].type = "CDF_TIME_TT2000"
             /\ cdf.zvars[name].recs = WrittenTo(name, Len(var_log))
             /\ read_ts.var_name = name
                   => /\ read_ts.ret = NoError
                      /\ read_ts.ts.time_stamps = WrittenTo(name, Len(var_log))

\* three writes, two of them to DataTimes with another series in between,
\* and the five time stamps of DataTimes read in the order of their writes
C16_Witness ==
    /\ Len(var_log) = 3
    /\ var_log[1].ts = [var_name |-> <<"D","a","t","a","T","i","m","e","s">>, time_stamps |-> <<120, 180>>]
    /\ var_log[2].ts.var_name = <<"G","e","o","m","a","g","n","e","t","i","c","V","e","c","t","o","r","T","i","m","e","s">>
    /\ var_log[2].ts.time_stamps = <<60>>
    /\ var_log[3].ts = [var_name |-> <<"D","a","t","a","T","i","m","e","s">>, time_stamps |-> <<60, 120>>]
    /\ read_ts.var_name = <<"D","a","t","a","T","i","m","e","s">>
    /\ read_ts.ret = NoError
    /\ read_ts.ts.time_stamps = <<120, 180, 60, 120>>

(***************************************************************************)
(* The name of a file: the properties of imcdf_make_filename.              *)
(***************************************************************************)
\* the decimal digits of a number below 100, and of a year of four digits
TwoDigits(n) == <<<<"0","1","2","3","4","5","6","7","8","9">>[(n \div 10) + 1], <<"0","1","2","3","4","5","6","7","8","9">>[(n % 10) + 1]>>
FourDigits(n) == TwoDigits(n \div 100) \o TwoDigits(n % 100)

CadenceTag(cadence) ==
    CASE cadence = "IMCDF_INT_ANNUAL" -> <<"p","1","y">>
      [] cadence = "IMCDF_INT_MONTHLY" -> <<"p","1","m">>
      [] cadence = "IMCDF_INT_DAILY" -> <<"p","1","d">>
      [] cadence = "IMCDF_INT_HOURLY" -> <<"p","t","1","h">>
      [] cadence = "IMCDF_INT_MINUTE" -> <<"p","t","1","m">>
      [] cadence = "IMCDF_INT_SECOND" -> <<"p","t","1","s">>
      [] OTHER -> <<"u","n","k","n">>

\* the date <<year, month, day, hour, min, sec>> at the precision of the coverage
DateAt(date, coverage) ==
    LET ymd == FourDigits(date[1]) \o TwoDigits(date[2]) \o TwoDigits(date[3])
    IN  CASE coverage = "IMCDF_INT_ANNUAL" -> FourDigits(date[1])
          [] coverage = "IMCDF_INT_MONTHLY" -> FourDigits(date[1]) \o TwoDigits(date[2])
          [] coverage = "IMCDF_INT_DAILY" -> ymd
          [] coverage = "IMCDF_INT_HOURLY" -> ymd \o <<"_">> \o TwoDigits(date[4])
          [] coverage = "IMCDF_INT_MINUTE" ->
                ymd \o <<"_">> \o TwoDigits(date[4]) \o TwoDigits(date[5])
          [] OTHER -> ymd \o <<"_">> \o TwoDigits(date[4]) \o TwoDigits(date[5])
                          \o TwoDigits(date[6])

\* the text with its upper case letters made lower case
Lower(text) ==
    [i \in DOMAIN text |->
       IF \E k \in 1 .. 26 : <<"A","B","C","D","E","F","G","H","I","J","K","L","M","N","O","P","Q","R","S","T","U","V","W","X","Y","Z">>[k] = text[i]
       THEN <<"a","b","c","d","e","f","g","h","i","j","k","l","m","n","o","p","q","r","s","t","u","v","w","x","y","z">>[CHOOSE k \in 1 .. 26 :
                                            <<"A","B","C","D","E","F","G","H","I","J","K","L","M","N","O","P","Q","R","S","T","U","V","W","X","Y","Z">>[k] = text[i]]
       ELSE text[i]]

\* the name the arguments of query call for, the start date being `date'
NameFor(date) ==
    LET prefix == IF query.prefix = NULL THEN <<>> ELSE query.prefix
        rest == query.station_code \o <<"_">> \o DateAt(date, query.coverage) \o <<"_">>
                  \o CadenceTag(query.cadence) \o <<"_">>
                  \o <<<<"0","1","2","3","4","5","6","7","8","9">>[query.pub_level + 1]>> \o <<".","c","d","f">>
    IN  prefix \o (IF query.force_lower_case THEN Lower(rest) ELSE rest)

\* C17: imcdf_make_filename returns prefix + station_code + "_" + fragment +
\* "_" + publication level code + ".cdf", the fragment being the start date
\* at the precision of the coverage, "_" and the tag of the cadence; with
\* force_lower_case every character after the prefix is in lower case and the
\* prefix is as given.  The start date of an epoch that is not on a whole
\* second is taken to be its second or the nearest second.
C17_Filename ==
    pc = "named" => answer \in {NameFor(query.start.date), NameFor(query.start.nearest)}

\* the same for the epochs less than half a second after a whole second
C17_NearestSecond ==
    (pc = "named" /\ query.start.date = query.start.nearest)
    => answer = NameFor(query.start.date)

\* the call of the test program: 1980-01-01T00:00:00, cadence minute,
\* coverage daily, station "AFO", level 1, lower case, empty prefix
C17_Witness ==
    /\ pc = "named"
    /\ query.prefix = <<>>
    /\ query.station_code = <<"A","F","O">>
    /\ query.start.date = <<1980, 1, 1, 0, 0, 0>>
    /\ query.pub_level = 1
    /\ query.cadence = "IMCDF_INT_MINUTE"
    /\ query.coverage = "IMCDF_INT_DAILY"
    /\ query.force_lower_case
    /\ answer = <<"a","f","o","_","1","9","8","0","0","1","0","1","_","p","t","1","m","_","1",".","c","d","f">>

(***************************************************************************)
(* The codecs of the enumerations.                                         *)
(***************************************************************************)
\* the text is the canonical one but for the case of its letters
Names(text, canonical) == Upper(text) = Upper(canonical)

\* C30: a publication level from 1 to 4, a standard level (Full, Partial,
\* None) and each of the two variable types, made into a text and parsed,
\* give the code again; the parsers take no account of the case of the
\* letters; a text that is no publication level parses to level 1, a text
\* that is no standard level to None, a text that is no variable type to the
\* error type.
C30_Codecs ==
    pc = "coded"
    => /\ answer.pub_level = query.pub_level
       /\ answer.standard_level = query.standard_level
       /\ query.var_type # IMCDF_VARTYPE_ERROR => answer.var_type = query.var_type
       /\ answer.parsed_pub_level =
             (IF \E c \in 2 .. 4 : Names(query.string, <<<<"0","1","2","3","4","5","6","7","8","9">>[c + 1]>>)
              THEN CHOOSE c \in 2 .. 4 : Names(query.string, <<<<"0","1","2","3","4","5","6","7","8","9">>[c + 1]>>)
              ELSE 1)
       /\ answer.parsed_standard_level =
             (IF Names(query.string, <<"F","u","l","l">>) THEN "IMCDF_STANDLEVEL_FULL"
              ELSE IF Names(query.string, <<"P","a","r","t","i","a","l">>) THEN "IMCDF_STANDLEVEL_PARTIAL"
              ELSE "IMCDF_STANDLEVEL_NONE")
       /\ answer.parsed_var_type =
             (IF Names(query.string, <<"G","e","o","m","a","g","n","e","t","i","c","F","i","e","l","d","E","l","e","m","e","n","t">>)
              THEN IMCDF_VARTYPE_GEOMAGNETIC_FIELD_ELEMENT
              ELSE IF Names(query.string, <<"T","e","m","p","e","r","a","t","u","r","e">>) THEN IMCDF_VARTYPE_TEMPERATURE
              ELSE IMCDF_VARTYPE_ERROR)

\* the level Partial was printed and parsed, and "fUlL" was parsed as Full
C30_Witness ==
    /\ pc = "coded"
    /\ query.standard_level = "IMCDF_STANDLEVEL_PARTIAL"
    /\ answer.standard_level = "IMCDF_STANDLEVEL_PARTIAL"
    /\ query.pub_level = 4
    /\ answer.pub_level = 4
    /\ query.var_type = IMCDF_VARTYPE_TEMPERATURE
    /\ answer.var_type = IMCDF_VARTYPE_TEMPERATURE
    /\ query.string = <<"f","U","l","L">>
    /\ answer.parsed_standard_level = "IMCDF_STANDLEVEL_FULL"

(***************************************************************************)
(* imcdf_tt2000_to_date_time.                                              *)
(***************************************************************************)
\* the date with another second
AtSecond(date, sec) == [date EXCEPT ![6] = sec]

\* C29: imcdf_tt2000_to_date_time returns a date and a time that are well
\* formed: outside a leap second the seconds are from 0 to 59, an epoch half
\* a second or more after the second 59 is carried into the next minute, and
\* the seconds in the name made by imcdf_make_filename are those of a second
\* that exists.
C29_WellFormed ==
    /\ (pc = "converted" /\ query.start.date[6] < 60)
       => /\ found[1].sec \in 0 .. 59
          /\ <<found[1].year, found[1].month, found[1].day, found[1].hour, found[1].min,
               found[1].sec>> = query.start.nearest
    /\ (pc = "named" /\ query.start.date[6] < 60)
       => \E date \in {query.start.date, query.start.nearest}, sec \in 0 .. 59 :
              answer = NameFor(AtSecond(date, sec))

\* the epoch 1999-12-31T23:59:59.5 was converted
C29_Witness ==
    /\ pc = "converted"
    /\ query.start.date = <<1999, 12, 31, 23, 59, 59>>
    /\ query.start.ns = 500000000
    /\ found[1].min = 59

(***************************************************************************)
(* imcdf_tt2000_inc.                                                       *)
(***************************************************************************)
\* a + b is an int
SumFitsInt(a, b) ==
    LET sum == Plus(SecondsToNanos(a), SecondsToNanos(b))
    IN  LessEq(SecondsToNanos(INT_MIN), sum) /\ LessEq(sum, SecondsToNanos(INT_MAX))

\* tt2000 + (a + b) * 1000000000, as an integer
SumOfIncs(tt2000, a, b) == Plus(tt2000, Plus(SecondsToNanos(a), SecondsToNanos(b)))

\* C18: for every epoch t and every int s, imcdf_tt2000_inc (t, s) is
\* t + s * 1000000000; hence two increments by a and b give what one
\* increment by a + b gives, and an increment by s followed by one by -s
\* gives t again.
C18_Increment ==
    /\ \A i \in DOMAIN found :
          found[i].ret = Plus(found[i].tt2000, SecondsToNanos(found[i].inc))
    /\ \A i \in 1 .. Len(found) - 1 :
          /\ found[i + 1].ret = SumOfIncs(found[i].tt2000, found[i].inc, found[i + 1].inc)
          /\ SumOfIncs(LongLong(0, 0, 0), found[i].inc, found[i + 1].inc) = LongLong(0, 0, 0)
             => found[i + 1].ret = found[i].tt2000

\* C18 for the calls whose sum fits a long long: the value returned is
\* t + s * 1000000000; two such calls in a row give
\* t + (a + b) * 1000000000, which is imcdf_tt2000_inc (t, a + b) when a + b
\* is an int, and t when b is -a; 60 seconds after 2000-01-01T00:00:00 is
\* 2000-01-01T00:01:00.
C18_IncrementInRange ==
    /\ \A i \in DOMAIN found :
          ~imcdf_tt2000_inc_overflows(found[i].tt2000, found[i].inc)
          => /\ found[i].ret = Plus(found[i].tt2000, SecondsToNanos(found[i].inc))
             /\ (found[i].tt2000 = CDF_TT2000_from_UTC_parts(2000, 1, 1, 0, 0, 0)
                 /\ found[i].inc = 60)
                => found[i].ret = CDF_TT2000_from_UTC_parts(2000, 1, 1, 0, 1, 0)
    /\ \A i \in 1 .. Len(found) - 1 :
          (/\ ~imcdf_tt2000_inc_overflows(found[i].tt2000, found[i].inc)
           /\ ~imcdf_tt2000_inc_overflows(found[i + 1].tt2000, found[i + 1].inc))
          => /\ found[i + 1].ret
                    = SumOfIncs(found[i].tt2000, found[i].inc, found[i + 1].inc)
             /\ SumFitsInt(found[i].inc, found[i + 1].inc)
                => found[i + 1].ret
                       = imcdf_tt2000_inc(found[i].tt2000, found[i].inc + found[i + 1].inc)
             /\ SumOfIncs(LongLong(0, 0, 0), found[i].inc, found[i + 1].inc)
                    = LongLong(0, 0, 0)
                => found[i + 1].ret = found[i].tt2000

\* 2000-01-01T00:00:00 incremented by 60 and then by -60
C18_Witness ==
    /\ pc = "stepped"
    /\ Len(found) = 2
    /\ query.tt2000 = CDF_TT2000_from_UTC_parts(2000, 1, 1, 0, 0, 0)
    /\ found[1].inc = 60
    /\ found[1].ret = CDF_TT2000_from_UTC_parts(2000, 1, 1, 0, 1, 0)
    /\ found[2].inc = -60
    /\ found[2].ret = query.tt2000

(***************************************************************************)
(* imcdf_make_tt2000_array and imcdf_calc_samp_per_from_tt2000.            *)
(***************************************************************************)
\* i * inc * 1000000000, as an integer
Multiple(inc, i) == LongLong((inc \div 86400) * i, (inc % 86400) * i, 0)

\* the epoch of the start date of the series
StartOfSeries ==
    CDF_TT2000_from_UTC_parts(query.date[1], query.date[2], query.date[3], query.date[4],
                              query.date[5], query.date[6])

\* a series was asked for a date the library can hold, with a number of
\* samples that is not negative, and there was memory for it
SeriesAsked ==
    /\ pc \in {"made", "measured", "called", "aborted"}
    /\ IsLegalDate(query.date[1])
    /\ query.n_samples >= 0
    /\ answer.malloc_ok

\* element i of the array made is the start + i * increment * 1000000000
ElementsAsAsked ==
    /\ answer.ret \notin {NULL, Aborted}
    /\ Len(answer.tt2000_array) = query.n_samples
    /\ \A i \in 1 .. query.n_samples :
          answer.tt2000_array[i] = Plus(StartOfSeries, Multiple(query.increment, i - 1))
    /\ query.increment >= 0
       => \A i \in 1 .. query.n_samples - 1 :
             LessEq(answer.tt2000_array[i], answer.tt2000_array[i + 1])

\* C19: imcdf_make_tt2000_array returns n_samples time stamps, element i
\* being the epoch of the start date + i * increment * 1000000000 (so they
\* do not decrease when the increment is not negative), and for such a
\* series of two samples or more imcdf_calc_samp_per_from_tt2000 returns the
\* increment.
C19_Series ==
    SeriesAsked
    => /\ ElementsAsAsked
       /\ (pc = "measured" /\ query.n_samples >= 2) => answer.samp_per = query.increment

\* the same for the series whose n_samples increments all fit a long long,
\* in a build with a long of 64 bits
C19_SeriesInRange ==
    (SeriesAsked /\ FitsLongLong(Plus(StartOfSeries,
                                      Multiple(query.increment, query.n_samples))))
    => /\ ElementsAsAsked
       /\ (pc = "measured" /\ query.n_samples >= 2 /\ answer.long_bits = 64)
          => answer.samp_per = query.increment

\* the series of the test program, three samples long, and its sample
\* period
C19_Witness ==
    /\ pc = "measured"
    /\ query.date = <<1980, 1, 1, 0, 0, 0>>
    /\ query.increment = 60
    /\ query.n_samples = 3
    /\ answer.tt2000_array[3] = CDF_TT2000_from_UTC_parts(1980, 1, 1, 0, 2, 0)
    /\ answer.samp_per = 60

(***************************************************************************)
(* The table of the open datasets.                                         *)
(***************************************************************************)
\* the number of handles that are open
OpenCount == IF cdf_index < 0 THEN 0 ELSE cdf_index

\* the step is a call that has failed
FailedCall == answer'.ret < 0

\* C20: after any sequence of imcdf_open and imcdf_close the number of open
\* handles is between 0 and MAX_OPEN_CDF_FILES (10); an imcdf_open called
\* while 10 datasets are open returns a negative value; a failed imcdf_open
\* and a failed imcdf_close leave the table of handles and the number of
\* open handles as they were.
C20_Handles ==
    /\ [](OpenCount \in 0 .. MAX_OPEN_CDF_FILES /\ MAX_OPEN_CDF_FILES = 10)
    /\ [][(answer'.call = "imcdf_open" /\ OpenCount = MAX_OPEN_CDF_FILES) => FailedCall]_vars
    /\ [][FailedCall => (cdf_ids' = cdf_ids /\ OpenCount' = OpenCount)]_vars

\* ten datasets are open and one more imcdf_open has failed
C20_Witness ==
    /\ pc = "called"
    /\ OpenCount = MAX_OPEN_CDF_FILES
    /\ \A count_0 \in 0 .. MAX_OPEN_CDF_FILES - 1 : cdf_ids[count_0] # 0
    /\ answer = [call |-> "imcdf_open", ret |-> -1]
    /\ cdf_opened = MAX_OPEN_CDF_FILES

(***************************************************************************)
(* imcdf_free_global_attrs.                                                *)
(***************************************************************************)
\* imcdf_free_global_attrs has been called on the structure read
FreedGlobalAttrs == pc \in {"freed", "crashed"}

\* the number of times the address was given to free
TimesFreed(address) == Cardinality({i \in DOMAIN answer.freed : answer.freed[i] = address})

\* C24: after a successful imcdf_read_global_attrs that found n parent
\* identifiers and m reference links, imcdf_free_global_attrs frees every
\* block the read allocated exactly once (the strings of the fields, the
\* n + m strings of the entries and the two arrays of pointers), frees no
\* block twice and frees no address that no allocation returned.
C24_FreesOnce ==
    FreedGlobalAttrs
    => /\ \A block \in ReadAllocations(read_attrs) : TimesFreed(block) = 1
       /\ \A i \in DOMAIN answer.freed :
              /\ answer.freed[i] \in ReadAllocations(read_attrs)
              /\ TimesFreed(answer.freed[i]) = 1

\* a structure with a parent identifier was freed
C24_Witness ==
    /\ pc = "freed"
    /\ read_ret = NoError
    /\ Len(read_attrs.parent_identifiers) >= 1
    /\ answer.call = "imcdf_free_global_attrs"

(***************************************************************************)
(* The buffer of format_error_message.                                     *)
(***************************************************************************)
\* imcdf_read_global_attrs has returned an error, or was stopped in it
ReadFailed == pc \in {"read", "crashed"} /\ read_ret \notin {NoError, NotCalled}

\* C27: format_error_message never writes more than the 200 bytes of its
\* buffer, whatever the length of the Title, FormatDescription or
\* FormatVersion read from the file and of the names given by the caller.
C27_WithinBuffer ==
    ReadFailed => (read_ret # Aborted /\ Len(read_ret) + 1 <= 200)

\* a title of 200 characters was read and rejected with a message
C27_Witness ==
    /\ pc = "read"
    /\ Len(read_attrs.title) = 200
    /\ read_ret = <<"T","i","t","l","e"," ","o","f"," ","d","a","t","a"," ","i","n","c","o","r","r","e","c","t",":"," ">> \o read_attrs.title

(***************************************************************************)
(* The steps of imcdf_write_variable.                                      *)
(***************************************************************************)
\* this step is a call of imcdf_write_variable
VariableWrite ==
    /\ Len(var_log') = Len(var_log) + 1
    /\ NewCall.call = "imcdf_write_variable"

\* the attributes in the order of the claim, with the value of those it gives
ClaimedAttrs(call) ==
    << [name |-> <<"F","I","E","L","D","N","A","M">>, val |-> {call.variable.field_nam}],
       [name |-> <<"U","N","I","T","S">>, val |-> {call.variable.units}],
       [name |-> <<"F","I","L","L","V","A","L">>, val |-> {call.variable.fill_val}],
       [name |-> <<"V","A","L","I","D","M","I","N">>, val |-> {call.variable.valid_min}],
       [name |-> <<"V","A","L","I","D","M","A","X">>, val |-> {call.variable.valid_max}],
       [name |-> <<"D","E","P","E","N","D","_","0">>, val |-> {}],
       [name |-> <<"D","I","S","P","L","A","Y","_","T","Y","P","E">>, val |-> {<<"t","i","m","e","_","s","e","r","i","e","s">>}],
       [name |-> <<"L","A","B","L","A","X","I","S">>,
        val |-> {IF IsGeomagnetic(call.variable.var_type) THEN call.variable.elem_rec
                 ELSE <<"T","e","m","p","e","r","a","t","u","r","e"," ">> \o call.variable.elem_rec}] >>

\* the entry of the variable in the attribute, if there is one
EntriesOf(dataset, attr_name, var_name) ==
    IF attr_name \in DOMAIN dataset.vattrs /\ var_name \in DOMAIN dataset.vattrs[attr_name]
    THEN {dataset.vattrs[attr_name][var_name]} ELSE {}

\* the step has written the first k attributes of the claim and no other
WrittenThrough(k, call) ==
    \A i \in 1 .. 8 :
        LET attr == ClaimedAttrs(call)[i]
            after == EntriesOf(cdf', attr.name, WrittenName(call))
        IN  IF i <= k
            THEN /\ after # {}
                 /\ \A e \in after : attr.val \in {{}, {e.val}}
            ELSE after = EntriesOf(cdf, attr.name, WrittenName(call))

\* no step of the call can fail: the type is a type of variable, the code
\* gives the name of the time stamps, no attribute name is taken
NoStepFails ==
    /\ NewCall.variable.var_type \in {IMCDF_VARTYPE_GEOMAGNETIC_FIELD_ELEMENT,
                                      IMCDF_VARTYPE_TEMPERATURE}
    /\ ~InvalidElementWrite
    /\ \A i \in 1 .. 8 : ClaimedAttrs(NewCall)[i].name \notin DOMAIN cdf.gattrs

\* C26: in every call of imcdf_write_variable the samples are written before
\* any attribute, then the attributes FIELDNAM, UNITS, FILLVAL, VALIDMIN,
\* VALIDMAX, DEPEND_0, DISPLAY_TYPE ("time_series") and LABLAXIS
\* ("Temperature " and the code for a temperature, the code otherwise) in
\* that order; the call stops at the first step that fails, returns an
\* error and leaves the earlier steps in the dataset; the attributes are
\* created on first use and used again, so that the call succeeds for every
\* further variable of the dataset.
C26_StepOrder ==
    [][VariableWrite
       => IF NewCall.variable.var_type \notin {IMCDF_VARTYPE_GEOMAGNETIC_FIELD_ELEMENT,
                                               IMCDF_VARTYPE_TEMPERATURE}
          THEN NewCall.ret # NoError /\ cdf' = cdf
          ELSE /\ RecordsOf(cdf', WrittenName(NewCall))
                     = RecordsOf(cdf, WrittenName(NewCall)) \o NewCall.variable.data
               /\ \E k \in 0 .. 8 :
                      /\ WrittenThrough(k, NewCall)
                      /\ NewCall.ret = NoError <=> k = 8
               /\ NoStepFails => NewCall.ret = NoError
               /\ \A i \in 1 .. 8 :
                      ClaimedAttrs(NewCall)[i].name \in DOMAIN cdf.gattrs
                      => /\ NewCall.ret # NoError
                         /\ EntriesOf(cdf', ClaimedAttrs(NewCall)[i].name,
                                      WrittenName(NewCall)) = {}]_vars

\* the name DISPLAY_TYPE is taken by a global attribute: a second variable
\* is written up to DEPEND_0 and the call fails
C26_Witness ==
    /\ pc = "var_written"
    /\ Len(var_log) = 2
    /\ <<"D","I","S","P","L","A","Y","_","T","Y","P","E">> \in DOMAIN cdf.gattrs
    /\ var_log[2].variable.var_type = IMCDF_VARTYPE_TEMPERATURE
    /\ var_log[2].ret # NoError
    /\ EntriesOf(cdf, <<"D","E","P","E","N","D","_","0">>, <<"T","e","m","p","e","r","a","t","u","r","e","2">>) # {}
    /\ EntriesOf(cdf, <<"L","A","B","L","A","X","I","S">>, <<"T","e","m","p","e","r","a","t","u","r","e","2">>) = {}
    /\ RecordsOf(cdf, <<"T","e","m","p","e","r","a","t","u","r","e","2">>) # <<>>

\* three variables were written to the dataset, each with success
C26_ThreeVariables ==
    /\ pc = "var_written"
    /\ Len(var_log) = 3
    /\ \A i \in 1 .. 3 : var_log[i].ret = NoError
    /\ Cardinality(DOMAIN cdf.zvars) = 3

(***************************************************************************)
(* A dataset written by imcdf_write_global_attrs and read back.            *)
(***************************************************************************)
\* the dataset was written with success and then read
WrittenThenRead ==
    /\ pc \in {"read", "freed", "crashed"}
    /\ origin = "created"
    /\ write_ret = NoError

\* C25: every dataset on which imcdf_write_global_attrs has returned success
\* is accepted by imcdf_read_global_attrs, whatever title, format
\* description, format version and required strings the caller gave.
C25_WrittenIsReadable == WrittenThenRead => read_ret = NoError

\* a title that is neither blank nor the canonical one was written with
\* success and the dataset was read
C25_Witness ==
    /\ pc = "read"
    /\ origin = "created"
    /\ write_ret = NoError
    /\ arg_attrs.title = <<"O","t","h","e","r"," ","t","i","t","l","e">>
    /\ read_ret # NotCalled

(***************************************************************************)
(* The handles the caller holds.                                           *)
(***************************************************************************)
\* the caller holds the handle
IsHeld(cdf_handle) == Held(found, cdf_handle) # 0

\* the handle is accepted and designates the dataset it was opened on
StillDesignates(cdf_handle) ==
    /\ sanity_check_handles(cdf_index, cdf_handle) = 0
    /\ cdf_ids[cdf_handle] = Held(found, cdf_handle)

\* the step is a successful imcdf_close that leaves other datasets open
ClosedAmongOthers ==
    /\ answer'.call = "imcdf_close"
    /\ answer'.ret = 0
    /\ OpenCount' > 0

\* C23: after any sequence of imcdf_open and imcdf_close every handle that a
\* successful imcdf_open has returned and that was not closed is still
\* accepted and designates the dataset it was opened on, and the value of a
\* closed handle is not accepted while other datasets are open.
C23_StableHandles ==
    /\ [](pc = "called"
          => \A cdf_handle \in 0 .. MAX_OPEN_CDF_FILES - 1 :
                 IsHeld(cdf_handle) => StillDesignates(cdf_handle))
    /\ [][ClosedAmongOthers
          => sanity_check_handles(cdf_index', answer'.cdf_handle) # 0]_vars

\* two datasets were opened and the first handle was closed
C23_Witness ==
    /\ pc = "called"
    /\ answer.call = "imcdf_close"
    /\ answer.cdf_handle = 0
    /\ answer.ret = 0
    /\ cdf_opened = 2
    /\ OpenCount = 1
    /\ IsHeld(1)
    /\ ~IsHeld(0)

(***************************************************************************)
(* Calls with a handle that is not open.                                   *)
(***************************************************************************)
\* the step is a call of an operation with a handle that is negative or not
\* less than the number of open datasets
InvalidHandleCall ==
    /\ answer'.call \in {"imcdf_close", "imcdf_is_var_exist"}
    /\ (answer'.cdf_handle < 0 \/ answer'.cdf_handle >= OpenCount)

\* C28: every operation of the low level that takes a handle, called with a
\* handle that is negative or not less than the number of open datasets,
\* returns its failure value, reads no place of the table of handles and
\* leaves every dataset and the table as they were.
C28_InvalidHandles ==
    [][InvalidHandleCall
       => /\ answer'.ret < 0
          /\ answer'.indexed = {}
          /\ pc' = "called"
          /\ cdf_ids' = cdf_ids
          /\ OpenCount' = OpenCount]_vars

\* ten datasets were opened and the first was closed: imcdf_is_var_exist is
\* called with the handle 9, which is no longer open, and returns 0
C28_Witness ==
    /\ pc = "called"
    /\ answer.call = "imcdf_is_var_exist"
    /\ answer.cdf_handle = MAX_OPEN_CDF_FILES - 1
    /\ OpenCount = MAX_OPEN_CDF_FILES - 1
    /\ answer.ret = 0

(***************************************************************************)
(* imcdf_make_tt2000_array: the status after a null result.                *)
(***************************************************************************)
\* imcdf_make_tt2000_array has returned null
ReturnedNull == pc = "made" /\ answer.ret = NULL

\* C21: whenever imcdf_make_tt2000_array returns null, the last status is
\* CDF_OK if and only if the memory allocation failed, and it is the status
\* of a bad argument when the start date was illegal, whatever status the
\* operations before the call have left.
C21_NullCause ==
    ReturnedNull
    => /\ cdf_status = CDF_OK <=> ~answer.malloc_ok
       /\ (answer.malloc_ok /\ ~IsLegalDate(query.date[1])) => cdf_status = "BAD_ARGUMENT"

\* the two causes after operations that have left CDF_OK: no memory, and
\* an illegal start date
C21_Witness ==
    /\ ReturnedNull
    /\ \/ ~answer.malloc_ok /\ cdf_status = CDF_OK
       \/ answer.malloc_ok /\ ~IsLegalDate(query.date[1]) /\ cdf_status = "BAD_ARGUMENT"

(***************************************************************************)
(* The errors of the operations that write variables.                      *)
(***************************************************************************)
\* this step is a call of imcdf_write_variable or imcdf_write_time_stamps
\* that has failed in the CDF library: it has returned an error that is not
\* the refusal of its own arguments
FailedInLibrary ==
    /\ var_log' # var_log
    /\ NewCall.ret \notin {NoError, <<"I","n","v","a","l","i","d"," ","v","a","r","i","a","b","l","e"," ","t","y","p","e">>, <<"M","i","s","s","i","n","g"," ","o","r"," ","i","n","v","a","l","i","d"," ","e","l","e","m","e","n","t"," ","c","o","d","e">>}

\* text occurs in msg
Occurs(text, msg) ==
    \E i \in 1 .. (Len(msg) - Len(text) + 1) : SubSeq(msg, i, i + Len(text) - 1) = text

\* C22: an error that a core operation returns because the CDF library has
\* failed holds the label of the operation, the name of the attribute or
\* variable and the status text of the library for that failure; so do the
\* errors of a failed write of the sample array in imcdf_write_variable and
\* of a failed imcdf_write_time_stamps.
C22_StatusText ==
    [][FailedInLibrary =>
         /\ Occurs(<<"E","r","r","o","r"," ","w","r","i","t","i","n","g"," ">>, NewCall.ret)
         /\ IsError(cdf_status')
         /\ HasStatusText(NewCall.ret)
         /\ Occurs(CDFgetStatusText(cdf_status'), NewCall.ret)]_vars

\* imcdf_write_time_stamps of a series with an empty name: the library
\* answers BAD_VAR_NAME and the error is the label and the name
C22_Witness ==
    /\ pc = "ts_written"
    /\ cdf_status = "BAD_VAR_NAME"
    /\ var_log[Len(var_log)].call = "imcdf_write_time_stamps"
    /\ var_log[Len(var_log)].ts.var_name = <<>>
    /\ var_log[Len(var_log)].ret = <<"E","r","r","o","r"," ","w","r","i","t","i","n","g"," ","t","i","m","e"," ","s","t","a","m","p"," ","d","a","t","a",":"," ">>

=============================================================================
